---- MODULE Spec2Model ----
(***************************************************************************)
(* Pi-Swarm SSH layer (lib/python/ssh_manager.py): SSHCredentials,         *)
(* SSHConnectionPool (test_connection, _interpret_ssh_error,               *)
(* test_multiple_connections, execute_command, execute_parallel_commands), *)
(* SSHManager.validate_cluster_connectivity and SSHManager.setup_ssh_keys; *)
(* ServiceOrchestrator.scale_service and _resolve_dependencies             *)
(* (lib/python/service_orchestrator.py); NetworkDiscovery                  *)
(* .scan_network_range (lib/python/network_discovery.py).                  *)
(*                                                                         *)
(* Conventions.  A Python str that the code only passes around (password,  *)
(* key path, user name, command) is a TLA+ string.  A text the code looks  *)
(* into or assembles (stderr, error messages) is a sequence of words, so   *)
(* that `in`, lower() and += are computed and not assumed.  Optional[str]  *)
(* is the string None for opaque values and a sequence of length 0 or 1    *)
(* (NoText, Some(t)) for texts.  A float is an exact rational [num, den];  *)
(* connection_time / execution_time (wall-clock readings) are left out of  *)
(* the result records.                                                     *)
(***************************************************************************)
EXTENDS Integers, Sequences, FiniteSets, TLC

VARIABLES
    c_args,      \* SSHCredentials(...): the constructor's arguments
    c_pc,        \* "args" | "constructed" | "raised"
    c_obj,       \* the constructed credentials / the exception raised
    op,          \* one test_connection / execute_command call: its arguments
    op_pc,       \* "not_attempted" | "in_flight" | "returned" | "raised"
    op_cmd,      \* argv handed to subprocess.run
    op_run,      \* what subprocess.run did
    op_result,   \* Some(result object) once the call has returned
    remote,      \* the remote command: "idle" | "running" | "exited"
    b_call,      \* one batch call: its name and arguments
    b_pc,        \* "submitting" | "collecting" | "unwinding" | "returned" | "raised"
    b_next,      \* position in the dict the submitting comprehension has reached
    unit_state,  \* per host: "none" | "queued" | "running" | "finished"
    unit_args,   \* per host: the credentials its unit was submitted with
    unit_run,    \* per host: what subprocess.run did in its unit
    future,      \* per host: how its unit ended (future.result())
    yielded,     \* hosts whose futures as_completed has yielded
    results,     \* the results dict of the batch call
    b_exc,       \* the exception that escaped the batch call, or None
    f_config,    \* validate_cluster_connectivity: cluster_config['nodes']
    f_pc,        \* "nodes" | "testing" | "returned" | "raised"
    f_i,         \* position of the node loop in the nodes dict
    f_hosts_credentials,   \* the hosts_credentials dict the node loop builds
    f_summary,   \* Some(summary) once validate_cluster_connectivity returned
    f_exc,       \* the exception that escaped validate_cluster_connectivity
    host_run,    \* per host: what a probe of it does while the host is unchanged
    f_round,     \* which of two consecutive validate_cluster_connectivity calls
    f_first,     \* Some(summary) of the first of the two calls
    k_call,      \* setup_ssh_keys: cluster_config['nodes'] and key_path
    k_pc,        \* "check" | "keygen" | "read" | "nodes" | "remote" | "returned" | "raised"
    k_i,         \* position of the node loop in the nodes dict
    k_chain,     \* the remote && chain of the current node: its steps' exit statuses
    k_commands,  \* the <<host, command>> pairs handed to execute_command so far
    k_public_key,   \* the text read from the public key file
    k_results,   \* the results dict of setup_ssh_keys
    k_exc,       \* the exception that escaped setup_ssh_keys
    k_round,     \* which of two consecutive setup_ssh_keys calls
    k_first,     \* Some(results) of the first of the two calls
    files,       \* the local file system: path -> content
    keygen_runs, \* how many times ssh-keygen has been run
    authorized_keys,   \* per host: the lines of ~/.ssh/authorized_keys
    s_call,      \* scale_service: service_name and replicas
    s_pc,        \* "status" | "scale" | "returned"
    s_commands,  \* the commands handed to _execute_remote_command so far
    s_services,  \* what get_service_status returned
    s_runs,      \* what subprocess.run did for each of these commands
    s_result,    \* Some(ScalingResult) once scale_service returned
    n_call,      \* scan_network_range: the NetworkDiscovery and the arguments
    n_pc,        \* "parse" | "pinging" | "detecting" | "returned"
    n_hosts,     \* the hosts list
    ping_state,  \* per address: "none" | "queued" | "running" | "finished" | "yielded"
    ping_future, \* per address: what ping_host returned
    alive_hosts, \* the alive_hosts list
    det_state,   \* per address: the state of its detect_pi_device unit
    det_future,  \* per address: what detect_pi_device returned
    pi_devices,  \* the pi_devices list
    n_result,    \* Some(list) once scan_network_range returned
    d_services,  \* _resolve_dependencies: the services argument
    d_resolved,  \* the resolved list
    d_remaining, \* the remaining list
    d_pc         \* "loop" | "returned"

credVars  == <<c_args, c_pc, c_obj>>
opVars    == <<op, op_pc, op_cmd, op_run, op_result, remote>>
batchVars == <<b_call, b_pc, b_next, unit_state, unit_args, unit_run, future,
               yielded, results, b_exc>>
fleetVars == <<f_config, f_pc, f_i, f_hosts_credentials, f_summary, f_exc>>
twiceVars == <<host_run, f_round, f_first>>
keyVars   == <<k_call, k_pc, k_i, k_chain, k_commands, k_public_key, k_results,
               k_exc, k_round, k_first, files, keygen_runs, authorized_keys>>
scaleVars == <<s_call, s_pc, s_commands, s_services, s_runs, s_result>>
scanVars  == <<n_call, n_pc, n_hosts, ping_state, ping_future, alive_hosts,
               det_state, det_future, pi_devices, n_result>>
resolveVars == <<d_services, d_resolved, d_remaining, d_pc>>
vars      == <<credVars, opVars, batchVars, fleetVars, twiceVars, keyVars,
               scaleVars, scanVars, resolveVars>>

outsideCred  == <<opVars, batchVars, fleetVars, twiceVars, keyVars, scaleVars,
                  scanVars, resolveVars>>
outsideOp    == <<credVars, batchVars, fleetVars, twiceVars, keyVars, scaleVars,
                  scanVars, resolveVars>>
outsideBatch == <<credVars, opVars, fleetVars, twiceVars, keyVars, scaleVars,
                  scanVars, resolveVars>>
outsideFleet == <<credVars, opVars, twiceVars, keyVars, scaleVars, scanVars,
                  resolveVars>>
outsideKeys  == <<credVars, opVars, batchVars, fleetVars, twiceVars, scaleVars,
                  scanVars, resolveVars>>
outsideScale == <<credVars, opVars, batchVars, fleetVars, twiceVars, keyVars,
                  scanVars, resolveVars>>
outsideScan  == <<credVars, opVars, batchVars, fleetVars, twiceVars, keyVars,
                  scaleVars, resolveVars>>
outsideResolve == <<credVars, opVars, batchVars, fleetVars, twiceVars, keyVars,
                    scaleVars, scanVars>>

(***************************************************************************)
(* Bounds and input sets                                                   *)
(***************************************************************************)
NumHosts == 2

HostAddr(i) == "10.0.0." \o ToString(i)
Hosts == {HostAddr(i) : i \in 1..NumHosts}

None == "None"
Truthy(s) == s # None /\ s # ""

NoText == <<>>
Some(t) == <<t>>

Usernames == {"pi", "admin"}
Passwords == {None, "", "raspberry"}
KeyPaths  == {None, "", "~/.ssh/id_rsa"}
Ports     == {<<>>, <<22>>, <<2222>>}
Commands  == {"uptime", "sleep 5"}
Timeouts  == {1, 60}

(***************************************************************************)
(* Texts as sequences of words                                             *)
(***************************************************************************)
LowerWord(w) ==
    CASE w = "Permission" -> "permission"
      [] w = "Connection" -> "connection"
      [] w = "No"         -> "no"
      [] w = "Timeout"    -> "timeout"
      [] w = "Host"       -> "host"
      [] w = "R"          -> "r"
      [] w = "P"          -> "p"
      [] OTHER            -> w

lower(text) == [i \in DOMAIN text |-> LowerWord(text[i])]

Contains(text, needle) ==
    \E i \in 0..(Len(text) - Len(needle)) :
        SubSeq(text, i + 1, i + Len(needle)) = needle

(***************************************************************************)
(* SSHCredentials                                                          *)
(***************************************************************************)
DefaultPort == 22

\* __post_init__ testing `is None` instead of the truth value
SSHCredentials_isNoneTest(username, password, private_key_path, port) ==
    IF password = None /\ private_key_path = None
    THEN [raised |-> "ValueError", username |-> username, password |-> password,
          private_key_path |-> private_key_path, port |-> DefaultPort]
    ELSE [raised |-> None, username |-> username, password |-> password,
          private_key_path |-> private_key_path,
          port |-> IF port = <<>> THEN DefaultPort ELSE port[1]]

SSHCredentials(username, password, private_key_path, port) ==
    IF ~Truthy(password) /\ ~Truthy(private_key_path)
    THEN [raised |-> "ValueError", username |-> username, password |-> password,
          private_key_path |-> private_key_path, port |-> DefaultPort]
    ELSE [raised |-> None, username |-> username, password |-> password,
          private_key_path |-> private_key_path,
          port |-> IF port = <<>> THEN DefaultPort ELSE port[1]]

CredArgs == [username : Usernames, password : Passwords,
             private_key_path : KeyPaths, port : Ports]

ValidCredentials ==
    {c \in {SSHCredentials(a.username, a.password, a.private_key_path, a.port) :
                a \in CredArgs} : c.raised = None}

IdleCredObj == [raised |-> None, username |-> "", password |-> None,
                private_key_path |-> None, port |-> 0]

InitCred ==
    /\ c_args \in CredArgs
    /\ c_pc = "args"
    /\ c_obj = IdleCredObj

Construct ==
    /\ c_pc = "args"
    /\ c_obj' = SSHCredentials(c_args.username, c_args.password,
                               c_args.private_key_path, c_args.port)
    /\ c_pc' = IF c_obj'.raised = None THEN "constructed" ELSE "raised"
    /\ UNCHANGED c_args
    /\ UNCHANGED outsideCred

(***************************************************************************)
(* subprocess.run: the argv it is given and what it does                   *)
(***************************************************************************)
DefaultConnectionTimeout == 30

SshOptions(connection_timeout) ==
    <<"ssh", "-o", "BatchMode=yes", "-o", "StrictHostKeyChecking=no",
      "-o", "ConnectTimeout=" \o ToString(connection_timeout)>>

Target(credentials, host) == credentials.username \o "@" \o host

\* test_connection, lines 101-120, and execute_command, lines 221-240
ProbeCmd(connection_timeout, host, credentials) ==
    IF Truthy(credentials.password)
    THEN <<"sshpass", "-p", credentials.password>>
            \o SshOptions(connection_timeout)
            \o <<"-p", ToString(credentials.port), Target(credentials, host), "exit">>
    ELSE SshOptions(connection_timeout)
            \o <<"-i", credentials.private_key_path>>
            \o <<"-p", ToString(credentials.port), Target(credentials, host), "exit">>

\* execute_command preferring the key when a key path is present
ExecCmd_keyFirst(connection_timeout, host, command, credentials) ==
    IF Truthy(credentials.private_key_path)
    THEN SshOptions(connection_timeout)
            \o <<"-i", credentials.private_key_path>>
            \o <<"-p", ToString(credentials.port), Target(credentials, host), command>>
    ELSE <<"sshpass", "-p", credentials.password>>
            \o SshOptions(connection_timeout)
            \o <<"-p", ToString(credentials.port), Target(credentials, host), command>>

ExecCmd(connection_timeout, host, command, credentials) ==
    IF Truthy(credentials.password)
    THEN <<"sshpass", "-p", credentials.password>>
            \o SshOptions(connection_timeout)
            \o <<"-p", ToString(credentials.port), Target(credentials, host), command>>
    ELSE SshOptions(connection_timeout)
            \o <<"-i", credentials.private_key_path>>
            \o <<"-p", ToString(credentials.port), Target(credentials, host), command>>

\* what the ssh client invoked by an argv authenticates with
CmdAuth(cmd) ==
    IF cmd[1] = "sshpass" THEN "password"
    ELSE IF Contains(cmd, <<"-i">>) THEN "key"
    ELSE "none"

ExitCodes == {0, 1, 5, 6, 130, 255}

StderrTexts ==
    { <<>>,
      <<"Permission", "denied", "(publickey,password).">>,
      <<"ssh:", "connect", "to", "host", "port", "22:", "Connection", "refused">>,
      <<"ssh:", "connect", "to", "host", "port", "22:", "No", "route", "to", "Host">>,
      <<"ssh:", "connect", "to", "host", "port", "22:", "Connection", "timed", "out">>,
      <<"Timeout", ",", "server", "not", "responding.">>,
      <<"bash:", "command", "not", "found">>,
      <<"Permission", "denied", ";", "Connection", "refused">> }

StdoutTexts == { <<>>, <<"up", "3", "days">> }

ExceptionTexts ==
    { <<"[Errno", "2]", "No", "such", "file", "or", "directory:", "'sshpass'">>,
      <<"[Errno", "13]", "Permission", "denied", ":", "'ssh'">> }

\* subprocess.run returned a CompletedProcess
Completed(code, out, err) ==
    [kind |-> "completed", returncode |-> code, stdout |-> out, stderr |-> err,
     exc |-> <<>>]

\* subprocess.run raised subprocess.TimeoutExpired
TimeoutExpired ==
    [kind |-> "timeout", returncode |-> 0, stdout |-> <<>>, stderr |-> <<>>,
     exc |-> <<>>]

\* subprocess.run raised another Exception whose str() is text
Raised(text) ==
    [kind |-> "error", returncode |-> 0, stdout |-> <<>>, stderr |-> <<>>,
     exc |-> text]

NotRun ==
    [kind |-> "none", returncode |-> 0, stdout |-> <<>>, stderr |-> <<>>,
     exc |-> <<>>]

Runs == {Completed(c, o, e) : c \in ExitCodes, o \in StdoutTexts, e \in StderrTexts}
            \cup {TimeoutExpired} \cup {Raised(t) : t \in ExceptionTexts}

(***************************************************************************)
(* SSHConnectionPool._interpret_ssh_error                                  *)
(***************************************************************************)
\* the table without its entries for 5 and 6
error_interpretations_noAuthCodes(exit_code) ==
    CASE exit_code = 255 ->
            <<"SSH", "connection", "failed", "-", "host", "unreachable", "or",
              "SSH", "not", "running">>
      [] exit_code = 130 ->
            <<"Connection", "interrupted", "by", "user">>
      [] OTHER ->
            <<"SSH", "failed", "with", "exit", "code", ToString(exit_code)>>

error_interpretations(exit_code) ==
    CASE exit_code = 255 ->
            <<"SSH", "connection", "failed", "-", "host", "unreachable", "or",
              "SSH", "not", "running">>
      [] exit_code = 5 ->
            <<"SSH", "authentication", "failed", "-", "invalid", "credentials">>
      [] exit_code = 6 ->
            <<"SSH", "authentication", "failed", "-", "permission", "denied">>
      [] exit_code = 130 ->
            <<"Connection", "interrupted", "by", "user">>
      [] OTHER ->
            <<"SSH", "failed", "with", "exit", "code", ToString(exit_code)>>

\* the stderr tests made on stderr itself instead of stderr.lower()
_interpret_ssh_error_caseSensitive(exit_code, stderr) ==
    LET base_error == error_interpretations(exit_code)
    IN  IF Contains(stderr, <<"permission", "denied">>)
        THEN base_error \o <<".", "Check", "username", "and", "password/key.">>
        ELSE IF Contains(stderr, <<"connection", "refused">>)
        THEN base_error \o <<".", "Ensure", "SSH", "server", "is", "running", "on",
                             "the", "target", "host.">>
        ELSE IF Contains(stderr, <<"no", "route", "to", "host">>)
        THEN base_error \o <<".", "Check", "network", "connectivity.">>
        ELSE IF Contains(stderr, <<"timeout">>)
        THEN base_error \o <<".", "Connection", "timed", "out", "-", "check",
                             "network", "and", "SSH", "configuration.">>
        ELSE base_error

_interpret_ssh_error(exit_code, stderr) ==
    LET base_error == error_interpretations(exit_code)
    IN  IF Contains(lower(stderr), <<"permission", "denied">>)
        THEN base_error \o <<".", "Check", "username", "and", "password/key.">>
        ELSE IF Contains(lower(stderr), <<"connection", "refused">>)
        THEN base_error \o <<".", "Ensure", "SSH", "server", "is", "running", "on",
                             "the", "target", "host.">>
        ELSE IF Contains(lower(stderr), <<"no", "route", "to", "host">>)
        THEN base_error \o <<".", "Check", "network", "connectivity.">>
        ELSE IF Contains(lower(stderr), <<"timeout">>)
        THEN base_error \o <<".", "Connection", "timed", "out", "-", "check",
                             "network", "and", "SSH", "configuration.">>
        ELSE base_error

(***************************************************************************)
(* SSHConnectionPool.test_connection / execute_command as functions of     *)
(* what subprocess.run did                                                 *)
(***************************************************************************)
\* how a call ends: it returns a value, or an exception escapes it
Return(v) == [raised |-> None, value |-> <<v>>]
Raise(e)  == [raised |-> e, value |-> <<>>]

SSHConnectionResult(host, success, error_message, auth_method) ==
    [host |-> host, success |-> success, error_message |-> error_message,
     auth_method |-> auth_method]

SSHCommandResult(host, command, success, stdout, stderr, exit_code) ==
    [host |-> host, command |-> command, success |-> success, stdout |-> stdout,
     stderr |-> stderr, exit_code |-> exit_code]

ConnectionTimeoutMessage(connection_timeout) ==
    <<"Connection", "timeout", "after", ToString(connection_timeout), "seconds">>

CommandTimeoutMessage(timeout) ==
    <<"Command", "timeout", "after", ToString(timeout), "seconds">>

\* test_connection reporting success for whatever status the client exits with
test_connection_anyExitSucceeds(connection_timeout, host, credentials, run) ==
    CASE run.kind = "completed" ->
            Return(SSHConnectionResult(host, TRUE, NoText,
                     IF Truthy(credentials.password) THEN "password" ELSE "key"))
      [] run.kind = "timeout" ->
            Return(SSHConnectionResult(host, FALSE,
                Some(ConnectionTimeoutMessage(connection_timeout)), None))
      [] OTHER ->
            Return(SSHConnectionResult(host, FALSE, Some(run.exc), None))

\* test_connection without its TimeoutExpired handler, a timeout handled like
\* the exit of an unreachable host
test_connection_timeoutAsExit255(connection_timeout, host, credentials, run) ==
    CASE run.kind = "completed" /\ run.returncode = 0 ->
            Return(SSHConnectionResult(host, TRUE, NoText,
                     IF Truthy(credentials.password) THEN "password" ELSE "key"))
      [] run.kind = "completed" /\ run.returncode # 0 ->
            Return(SSHConnectionResult(host, FALSE,
                     Some(_interpret_ssh_error(run.returncode, run.stderr)), None))
      [] run.kind = "timeout" ->
            Return(SSHConnectionResult(host, FALSE,
                     Some(_interpret_ssh_error(255, run.stderr)), None))
      [] OTHER ->
            Return(SSHConnectionResult(host, FALSE, Some(run.exc), None))

test_connection(connection_timeout, host, credentials, run) ==
    CASE run.kind = "completed" ->
            IF run.returncode = 0
            THEN Return(SSHConnectionResult(host, TRUE, NoText,
                     IF Truthy(credentials.password) THEN "password" ELSE "key"))
            ELSE Return(SSHConnectionResult(host, FALSE,
                     Some(_interpret_ssh_error(run.returncode, run.stderr)), None))
      [] run.kind = "timeout" ->
            Return(SSHConnectionResult(host, FALSE,
                Some(ConnectionTimeoutMessage(connection_timeout)), None))
      [] OTHER ->
            Return(SSHConnectionResult(host, FALSE, Some(run.exc), None))

\* execute_command giving every failed command the exit code -1
execute_command_failureCodeMinus1(host, command, credentials, timeout, run) ==
    CASE run.kind = "completed" ->
            Return(SSHCommandResult(host, command, run.returncode = 0, run.stdout,
                                    run.stderr,
                                    IF run.returncode = 0 THEN 0 ELSE -1))
      [] run.kind = "timeout" ->
            Return(SSHCommandResult(host, command, FALSE, <<>>,
                                    CommandTimeoutMessage(timeout), -1))
      [] OTHER ->
            Return(SSHCommandResult(host, command, FALSE, <<>>, run.exc, -1))

\* execute_command without its `except Exception` handler
execute_command_noCatchAll(host, command, credentials, timeout, run) ==
    CASE run.kind = "completed" ->
            Return(SSHCommandResult(host, command, run.returncode = 0, run.stdout,
                                    run.stderr, run.returncode))
      [] run.kind = "timeout" ->
            Return(SSHCommandResult(host, command, FALSE, <<>>,
                                    CommandTimeoutMessage(timeout), -1))
      [] OTHER ->
            Raise("Exception")

\* execute_command reporting a timeout with the exit code of timeout(1)
execute_command_timeoutCode124(host, command, credentials, timeout, run) ==
    CASE run.kind = "completed" ->
            Return(SSHCommandResult(host, command, run.returncode = 0, run.stdout,
                                    run.stderr, run.returncode))
      [] run.kind = "timeout" ->
            Return(SSHCommandResult(host, command, FALSE, <<>>,
                                    CommandTimeoutMessage(timeout), 124))
      [] OTHER ->
            Return(SSHCommandResult(host, command, FALSE, <<>>, run.exc, -1))

execute_command(host, command, credentials, timeout, run) ==
    CASE run.kind = "completed" ->
            Return(SSHCommandResult(host, command, run.returncode = 0, run.stdout,
                                    run.stderr, run.returncode))
      [] run.kind = "timeout" ->
            Return(SSHCommandResult(host, command, FALSE, <<>>,
                                    CommandTimeoutMessage(timeout), -1))
      [] OTHER ->
            Return(SSHCommandResult(host, command, FALSE, <<>>, run.exc, -1))

(***************************************************************************)
(* One call of test_connection or execute_command, step by step:           *)
(* not_attempted -> in_flight (the ssh client is running) -> returned.     *)
(***************************************************************************)
OpCalls ==
    [kind : {"test_connection", "execute_command"}, host : Hosts,
     command : Commands, credentials : ValidCredentials,
     connection_timeout : {DefaultConnectionTimeout}, timeout : Timeouts]

OpCmd(call) ==
    IF call.kind = "test_connection"
    THEN ProbeCmd(call.connection_timeout, call.host, call.credentials)
    ELSE ExecCmd(call.connection_timeout, call.host, call.command, call.credentials)

OpOutcome(call, run) ==
    IF call.kind = "test_connection"
    THEN test_connection(call.connection_timeout, call.host, call.credentials, run)
    ELSE execute_command(call.host, call.command, call.credentials, call.timeout, run)

OpFinish(run) ==
    LET outcome == OpOutcome(op, run)
    IN  /\ op_run' = run
        /\ op_pc' = IF outcome.raised = None THEN "returned" ELSE "raised"
        /\ op_result' = outcome.value

InitOp ==
    /\ op \in OpCalls
    /\ op_pc = "not_attempted"
    /\ op_cmd = <<>>
    /\ op_run = NotRun
    /\ op_result = <<>>
    /\ remote = "idle"

\* subprocess.run starts the ssh client
OpSpawn ==
    /\ op_pc = "not_attempted"
    /\ op_pc' = "in_flight"
    /\ op_cmd' = OpCmd(op)
    /\ remote' = "running"
    /\ UNCHANGED <<op, op_run, op_result>>
    /\ UNCHANGED outsideOp

\* subprocess.run raises before a client runs (sshpass or ssh cannot be executed)
OpSpawnFails ==
    /\ op_pc = "not_attempted"
    /\ op_cmd' = OpCmd(op)
    /\ \E t \in ExceptionTexts : OpFinish(Raised(t))
    /\ UNCHANGED <<op, remote>>
    /\ UNCHANGED outsideOp

\* the ssh client exits within the timeout
OpExit ==
    /\ op_pc = "in_flight"
    /\ \E c \in ExitCodes, o \in StdoutTexts, e \in StderrTexts :
          OpFinish(Completed(c, o, e))
    /\ remote' = "exited"
    /\ UNCHANGED <<op, op_cmd>>
    /\ UNCHANGED outsideOp

\* the timeout of subprocess.run fires: the local client is killed, the call
\* returns, and nothing is done about the command on the remote host
OpTimeout ==
    /\ op_pc = "in_flight"
    /\ OpFinish(TimeoutExpired)
    /\ UNCHANGED <<op, op_cmd, remote>>
    /\ UNCHANGED outsideOp

\* subprocess.run raises while the client runs
OpError ==
    /\ op_pc = "in_flight"
    /\ \E t \in ExceptionTexts : OpFinish(Raised(t))
    /\ UNCHANGED <<op, op_cmd, remote>>
    /\ UNCHANGED outsideOp

\* the remote command ends by itself after the local call has given up
RemoteEnds ==
    /\ op_pc \in {"returned", "raised"}
    /\ remote = "running"
    /\ remote' = "exited"
    /\ UNCHANGED <<op, op_pc, op_cmd, op_run, op_result>>
    /\ UNCHANGED outsideOp

NextOp ==
    \/ OpSpawn \/ OpSpawnFails \/ OpExit \/ OpTimeout \/ OpError \/ RemoteEnds

(***************************************************************************)
(* Python dicts (insertion-ordered): sequences of <<key, value>>           *)
(***************************************************************************)
Keys(d)   == [i \in DOMAIN d |-> d[i][1]]
Values(d) == [i \in DOMAIN d |-> d[i][2]]
KeySet(d) == {d[i][1] : i \in DOMAIN d}
Has(d, k) == k \in KeySet(d)
Get(d, k) == d[CHOOSE i \in DOMAIN d : d[i][1] = k][2]
Put(d, k, v) ==
    IF Has(d, k)
    THEN [i \in DOMAIN d |-> IF d[i][1] = k THEN <<k, v>> ELSE d[i]]
    ELSE Append(d, <<k, v>>)

InjectiveSeqs(S) ==
    UNION {{q \in [1..n -> S] : \A i, j \in 1..n : i # j => q[i] # q[j]} :
              n \in 0..Cardinality(S)}

(***************************************************************************)
(* SSHConnectionPool.test_multiple_connections / execute_parallel_commands *)
(***************************************************************************)
DefaultMaxWorkers == 5
DefaultTimeout == 60

WorkerCounts == {1, 2, DefaultMaxWorkers}

\* each host has credentials and a command of its own
CredentialsOf(h) ==
    SSHCredentials("pi", "pw-" \o h, None, <<>>)
CommandOf(h) == "hostname # " \o h

HostsCredentialsDicts ==
    {[i \in DOMAIN q |-> <<q[i], CredentialsOf(q[i])>>] : q \in InjectiveSeqs(Hosts)}

HostsCommandsDicts ==
    {[i \in DOMAIN q |-> <<q[i], CommandOf(q[i])>>] :
        q \in {q \in InjectiveSeqs(Hosts) :
                 \A i, j \in DOMAIN q : i < j =>
                    \E a, b \in 1..NumHosts :
                       a < b /\ q[i] = HostAddr(a) /\ q[j] = HostAddr(b)}}

\* a unit's callable raised the exception e: future.result() re-raises it in
\* the dispatcher, where str(e) is the one token e
UnitException(e) ==
    [kind |-> "unit_exception", returncode |-> 0, stdout |-> <<>>,
     stderr |-> <<>>, exc |-> <<e>>]

ConnectionRefused ==
    <<"ssh:", "connect", "to", "host", "port", "22:", "Connection", "refused">>

BatchRuns ==
    { Completed(0, <<>>, <<>>),
      Completed(255, <<>>, ConnectionRefused),
      TimeoutExpired,
      Raised(<<"[Errno", "2]", "No", "such", "file", "or", "directory:", "'sshpass'">>),
      UnitException("worker failed") }

BatchCalls ==
    [op : {"test_multiple_connections"}, hosts_credentials : HostsCredentialsDicts,
     hosts_commands : {<<>>}, credentials_map : {<<>>},
     max_workers : WorkerCounts, timeout : {DefaultTimeout}]
    \cup
    [op : {"execute_parallel_commands"}, hosts_credentials : {<<>>},
     hosts_commands : HostsCommandsDicts, credentials_map : HostsCredentialsDicts,
     max_workers : WorkerCounts, timeout : {DefaultTimeout}]

\* the dict the submitting comprehension iterates
Items(call) ==
    IF call.op = "test_multiple_connections"
    THEN call.hosts_credentials ELSE call.hosts_commands

\* every host is given the first value of the map, its own entry ignored
CredentialsFor_firstValueOnly(credentials_map, host) ==
    IF Len(credentials_map) = 0
    THEN Raise("IndexError")
    ELSE Return(Values(credentials_map)[1])

\* credentials_map.get(host, list(credentials_map.values())[0]); the default
\* argument is evaluated before get is called
CredentialsFor(credentials_map, host) ==
    IF Len(credentials_map) = 0
    THEN Raise("IndexError")
    ELSE Return(IF Has(credentials_map, host)
                THEN Get(credentials_map, host)
                ELSE Values(credentials_map)[1])

\* the arguments the comprehension submits for the item at position i
SubmitArgs(call, i) ==
    IF call.op = "test_multiple_connections"
    THEN Return(call.hosts_credentials[i][2])
    ELSE CredentialsFor(call.credentials_map, call.hosts_commands[i][1])

\* the callable of one unit, run in a worker
UnitCall(call, host, credentials, run) ==
    IF run.kind = "unit_exception"
    THEN Raise(run.exc[1])
    ELSE IF call.op = "test_multiple_connections"
    THEN test_connection(DefaultConnectionTimeout, host, credentials, run)
    ELSE execute_command(host, Get(call.hosts_commands, host), credentials,
                         call.timeout, run)

\* the except branch of the collecting loop
FailureResult(call, host, exc) ==
    IF call.op = "test_multiple_connections"
    THEN SSHConnectionResult(host, FALSE,
             Some(<<"Test", "execution", "failed:", exc>>), None)
    ELSE SSHCommandResult(host, Get(call.hosts_commands, host), FALSE, <<>>,
             <<"Execution", "failed:", exc>>, -1)

\* the collecting loop without its except branch storing a failure result
Collected_noFailureEntry(call, res, h, fut) ==
    IF fut.raised = None
    THEN Put(res, h, fut.value[1])
    ELSE res

\* the collecting loop rebinding results to a dict of the one new entry
Collected_replacesMap(call, res, h, fut) ==
    IF fut.raised = None
    THEN <<<<h, fut.value[1]>>>>
    ELSE <<<<h, FailureResult(call, h, fut.raised)>>>>

\* the collecting loop storing every result under the first requested host
Collected_underFirstKey(call, res, h, fut) ==
    IF fut.raised = None
    THEN Put(res, Items(call)[1][1], fut.value[1])
    ELSE Put(res, Items(call)[1][1], FailureResult(call, h, fut.raised))

\* the body of the collecting loop for the future of host h
Collected(call, res, h, fut) ==
    IF fut.raised = None
    THEN Put(res, h, fut.value[1])
    ELSE Put(res, h, FailureResult(call, h, fut.raised))

IdleFuture == [raised |-> None, value |-> <<>>]

Submitted == {h \in Hosts : unit_state[h] # "none"}
Running   == {h \in Hosts : unit_state[h] = "running"}

InitBatchWith(call) ==
    /\ b_call = call
    /\ b_pc = "submitting"
    /\ b_next = 1
    /\ unit_state = [h \in Hosts |-> "none"]
    /\ unit_args = [h \in Hosts |-> IdleCredObj]
    /\ unit_run = [h \in Hosts |-> NotRun]
    /\ future = [h \in Hosts |-> IdleFuture]
    /\ yielded = {}
    /\ results = <<>>
    /\ b_exc = None

InitBatch == \E call \in BatchCalls : InitBatchWith(call)

\* executor.submit(...) for the next item of the comprehension
Submit ==
    /\ b_pc = "submitting"
    /\ b_next <= Len(Items(b_call))
    /\ LET h == Items(b_call)[b_next][1]
           args == SubmitArgs(b_call, b_next)
       IN  IF args.raised # None
           THEN /\ b_pc' = "unwinding"
                /\ b_exc' = args.raised
                /\ UNCHANGED <<b_next, unit_state, unit_args>>
           ELSE /\ unit_state' = [unit_state EXCEPT ![h] = "queued"]
                /\ unit_args' = [unit_args EXCEPT ![h] = args.value[1]]
                /\ b_next' = b_next + 1
                /\ UNCHANGED <<b_pc, b_exc>>
    /\ UNCHANGED <<b_call, unit_run, future, yielded, results>>
    /\ UNCHANGED outsideBatch

\* the comprehension is exhausted: as_completed(future_to_host) starts
BeginCollect ==
    /\ b_pc = "submitting"
    /\ b_next > Len(Items(b_call))
    /\ b_pc' = "collecting"
    /\ UNCHANGED <<b_call, b_next, unit_state, unit_args, unit_run, future,
                   yielded, results, b_exc>>
    /\ UNCHANGED outsideBatch

\* a pool of one worker, whatever max_workers is
StartUnit_oneAtATime(h) ==
    /\ unit_state[h] = "queued"
    /\ Running = {}
    /\ \A i \in DOMAIN Items(b_call) :
          unit_state[Items(b_call)[i][1]] = "queued" =>
             \E j \in 1..i : Items(b_call)[j][1] = h
    /\ unit_state' = [unit_state EXCEPT ![h] = "running"]
    /\ UNCHANGED <<b_call, b_pc, b_next, unit_args, unit_run, future, yielded,
                   results, b_exc>>
    /\ UNCHANGED outsideBatch

\* a pool that starts a thread for every unit, whatever max_workers is
StartUnit_unbounded(h) ==
    /\ unit_state[h] = "queued"
    /\ \A i \in DOMAIN Items(b_call) :
          unit_state[Items(b_call)[i][1]] = "queued" =>
             \E j \in 1..i : Items(b_call)[j][1] = h
    /\ unit_state' = [unit_state EXCEPT ![h] = "running"]
    /\ UNCHANGED <<b_call, b_pc, b_next, unit_args, unit_run, future, yielded,
                   results, b_exc>>
    /\ UNCHANGED outsideBatch

\* a free worker takes the oldest queued unit
StartUnit(h) ==
    /\ unit_state[h] = "queued"
    /\ Cardinality(Running) < b_call.max_workers
    /\ \A i \in DOMAIN Items(b_call) :
          unit_state[Items(b_call)[i][1]] = "queued" =>
             \E j \in 1..i : Items(b_call)[j][1] = h
    /\ unit_state' = [unit_state EXCEPT ![h] = "running"]
    /\ UNCHANGED <<b_call, b_pc, b_next, unit_args, unit_run, future, yielded,
                   results, b_exc>>
    /\ UNCHANGED outsideBatch

\* the unit of host h ends (in the way host_run[h] fixes, when it fixes one)
FinishUnit(h) ==
    /\ unit_state[h] = "running"
    /\ \E run \in BatchRuns :
          /\ host_run[h] \in {NotRun, run}
          /\ unit_run' = [unit_run EXCEPT ![h] = run]
          /\ future' = [future EXCEPT ![h] = UnitCall(b_call, h, unit_args[h], run)]
    /\ unit_state' = [unit_state EXCEPT ![h] = "finished"]
    /\ UNCHANGED <<b_call, b_pc, b_next, unit_args, yielded, results, b_exc>>
    /\ UNCHANGED outsideBatch

\* one iteration of `for future in as_completed(future_to_host)`
Collect(h) ==
    /\ b_pc = "collecting"
    /\ unit_state[h] = "finished"
    /\ h \notin yielded
    /\ yielded' = yielded \cup {h}
    /\ results' = Collected(b_call, results, h, future[h])
    /\ UNCHANGED <<b_call, b_pc, b_next, unit_state, unit_args, unit_run, future,
                   b_exc>>
    /\ UNCHANGED outsideBatch

\* the call is left at any point of the collecting loop, without waiting for
\* the units (executor.shutdown(wait=False))
Shutdown_withoutWaiting ==
    /\ b_pc \in {"collecting", "unwinding"}
    /\ b_pc' = IF b_pc = "collecting" THEN "returned" ELSE "raised"
    /\ UNCHANGED <<b_call, b_next, unit_state, unit_args, unit_run, future,
                   yielded, results, b_exc>>
    /\ UNCHANGED outsideBatch

\* the with block is left (executor.shutdown(wait=True)), normally after the
\* loop or by the exception that escaped the comprehension
Shutdown ==
    /\ \/ b_pc = "collecting" /\ yielded = Submitted
       \/ b_pc = "unwinding"
    /\ \A h \in Submitted : unit_state[h] = "finished"
    /\ b_pc' = IF b_pc = "collecting" THEN "returned" ELSE "raised"
    /\ UNCHANGED <<b_call, b_next, unit_state, unit_args, unit_run, future,
                   yielded, results, b_exc>>
    /\ UNCHANGED outsideBatch

NextBatch ==
    \/ Submit
    \/ BeginCollect
    \/ \E h \in Hosts : StartUnit(h)
    \/ \E h \in Hosts : FinishUnit(h)
    \/ \E h \in Hosts : Collect(h)
    \/ Shutdown

(***************************************************************************)
(* Floats as exact rationals                                               *)
(***************************************************************************)
RECURSIVE Gcd(_, _)
Gcd(a, b) == IF b = 0 THEN a ELSE Gcd(b, a % b)

Rational(n, d) == [num |-> n \div Gcd(n, d), den |-> d \div Gcd(n, d)]

\* a / b
TrueDiv(a, b) ==
    IF b = 0 THEN Raise("ZeroDivisionError") ELSE Return(Rational(a, b))

\* r * k
Times(r, k) == Rational(r.num * k, r.den)

(***************************************************************************)
(* SSHManager.validate_cluster_connectivity                                *)
(***************************************************************************)
NodeConfigs ==
    [ip : {None} \cup Hosts, password : {None, "raspberry"},
     ssh_key_path : {None, "~/.ssh/id_rsa"}]

NodeName(i) == "node" \o ToString(i)

\* cluster_config['nodes'] of up to NumHosts nodes
ClusterNodes ==
    UNION {{[i \in 1..n |-> <<NodeName(i), q[i]>>] : q \in [1..n -> NodeConfigs]} :
              n \in 0..NumHosts}

\* [host for host, result in results.items() if result.success]
SuccessfulHosts(res) == Keys(SelectSeq(res, LAMBDA e : e[2].success))

\* the failed list taken without its filter
FailedHosts_unfiltered(res) == Keys(res)

\* [host for host, result in results.items() if not result.success]
FailedHosts(res) == Keys(SelectSeq(res, LAMBDA e : ~e[2].success))

\* a rate that depends on which unit completed first
SuccessRate_firstCompleted(successful_hosts, res) ==
    IF Len(res) # 0 /\ res[1][2].success
    THEN Return(Rational(100, 1))
    ELSE Return(Rational(0, 1))

\* the rate computed without the `if results` guard
SuccessRate_unguarded(successful_hosts, res) ==
    LET q == TrueDiv(Len(successful_hosts), Len(res))
    IN  IF q.raised # None THEN q ELSE Return(Times(q.value[1], 100))

\* len(successful_hosts) / len(results) * 100 if results else 0
SuccessRate(successful_hosts, res) ==
    IF Len(res) # 0
    THEN LET q == TrueDiv(Len(successful_hosts), Len(res))
         IN  IF q.raised # None THEN q ELSE Return(Times(q.value[1], 100))
    ELSE Return(Rational(0, 1))

\* the summary dict, or the exception raised while building it
Summary(res) ==
    LET successful_hosts == SuccessfulHosts(res)
        failed_hosts == FailedHosts(res)
        rate == SuccessRate(successful_hosts, res)
    IN  IF rate.raised # None
        THEN rate
        ELSE Return([total_nodes |-> Len(res),
                     successful_connections |-> Len(successful_hosts),
                     failed_connections |-> Len(failed_hosts),
                     success_rate |-> rate.value[1],
                     successful_hosts |-> successful_hosts,
                     failed_hosts |-> failed_hosts,
                     detailed_results |-> res])

InitFleet ==
    /\ f_config \in ClusterNodes
    /\ f_pc = "nodes"
    /\ f_i = 1
    /\ f_hosts_credentials = <<>>
    /\ f_summary = <<>>
    /\ f_exc = None

\* the node loop with a node whose credentials cannot be built left out
NodeStep_skipsMisconfigured ==
    /\ f_pc = "nodes"
    /\ f_i <= Len(f_config)
    /\ LET node_config == f_config[f_i][2]
           host == node_config.ip
           credentials == SSHCredentials("pi", node_config.password,
                                         node_config.ssh_key_path, <<>>)
       IN  IF ~Truthy(host) \/ credentials.raised # None
           THEN /\ f_i' = f_i + 1
                /\ UNCHANGED <<f_pc, f_hosts_credentials, f_exc>>
           ELSE /\ f_hosts_credentials' = Put(f_hosts_credentials, host, credentials)
                /\ f_i' = f_i + 1
                /\ UNCHANGED <<f_pc, f_exc>>
    /\ UNCHANGED <<f_config, f_summary>>
    /\ UNCHANGED batchVars
    /\ UNCHANGED outsideFleet

\* one iteration of the loop over cluster_config['nodes']
NodeStep ==
    /\ f_pc = "nodes"
    /\ f_i <= Len(f_config)
    /\ LET node_config == f_config[f_i][2]
           host == node_config.ip
           credentials == SSHCredentials("pi", node_config.password,
                                         node_config.ssh_key_path, <<>>)
       IN  IF ~Truthy(host)
           THEN /\ f_i' = f_i + 1
                /\ UNCHANGED <<f_pc, f_hosts_credentials, f_exc>>
           ELSE IF credentials.raised # None
           THEN /\ f_pc' = "raised"
                /\ f_exc' = credentials.raised
                /\ UNCHANGED <<f_i, f_hosts_credentials>>
           ELSE /\ f_hosts_credentials' = Put(f_hosts_credentials, host, credentials)
                /\ f_i' = f_i + 1
                /\ UNCHANGED <<f_pc, f_exc>>
    /\ UNCHANGED <<f_config, f_summary>>
    /\ UNCHANGED batchVars
    /\ UNCHANGED outsideFleet

\* self.pool.test_multiple_connections(hosts_credentials) is entered
CallPool ==
    /\ f_pc = "nodes"
    /\ f_i > Len(f_config)
    /\ f_pc' = "testing"
    /\ b_call' = [op |-> "test_multiple_connections",
                  hosts_credentials |-> f_hosts_credentials,
                  hosts_commands |-> <<>>, credentials_map |-> <<>>,
                  max_workers |-> DefaultMaxWorkers, timeout |-> DefaultTimeout]
    /\ b_pc' = "submitting"
    /\ b_next' = 1
    /\ unit_state' = [h \in Hosts |-> "none"]
    /\ unit_args' = [h \in Hosts |-> IdleCredObj]
    /\ unit_run' = [h \in Hosts |-> NotRun]
    /\ future' = [h \in Hosts |-> IdleFuture]
    /\ yielded' = {}
    /\ results' = <<>>
    /\ b_exc' = None
    /\ UNCHANGED <<f_config, f_i, f_hosts_credentials, f_summary, f_exc>>
    /\ UNCHANGED outsideFleet

\* test_multiple_connections has returned: the summary is built and returned
Summarize ==
    /\ f_pc = "testing"
    /\ b_pc = "returned"
    /\ LET summary == Summary(results)
       IN  /\ f_pc' = IF summary.raised = None THEN "returned" ELSE "raised"
           /\ f_exc' = summary.raised
           /\ f_summary' = summary.value
    /\ UNCHANGED <<f_config, f_i, f_hosts_credentials>>
    /\ UNCHANGED batchVars
    /\ UNCHANGED outsideFleet

NextFleet ==
    \/ NodeStep
    \/ CallPool
    \/ Submit
    \/ BeginCollect
    \/ \E h \in Hosts : StartUnit(h)
    \/ \E h \in Hosts : FinishUnit(h)
    \/ \E h \in Hosts : Collect(h)
    \/ Shutdown
    \/ Summarize

(***************************************************************************)
(* validate_cluster_connectivity called twice in a row on unchanged hosts  *)
(***************************************************************************)
\* what a probe of an unchanged host does, each time the host is probed
SteadyRuns ==
    {Completed(0, <<>>, <<>>), Completed(255, <<>>, ConnectionRefused), TimeoutExpired}

\* the clusters of the two calls: nodes that authenticate by password, if at all
TwiceNodes ==
    {nodes \in ClusterNodes : \A i \in DOMAIN nodes : nodes[i][2].ssh_key_path = None}

InitTwice ==
    /\ f_config \in TwiceNodes
    /\ host_run \in [Hosts -> SteadyRuns]
    /\ f_round = 1
    /\ f_first = <<>>

\* the first call has returned its summary; the second call is entered
FleetRunAgain ==
    /\ f_pc = "returned"
    /\ f_round = 1
    /\ f_round' = 2
    /\ f_first' = f_summary
    /\ f_pc' = "nodes"
    /\ f_i' = 1
    /\ f_hosts_credentials' = <<>>
    /\ f_summary' = <<>>
    /\ UNCHANGED <<f_config, f_exc, host_run>>
    /\ UNCHANGED batchVars
    /\ UNCHANGED <<credVars, opVars, keyVars, scaleVars, scanVars, resolveVars>>

NextTwice ==
    \/ NextFleet
    \/ FleetRunAgain

(***************************************************************************)
(* Local files (pathlib.Path, open) and ssh-keygen                         *)
(***************************************************************************)
\* a path: its directories and its final component, split at its last dot
Path(dir, stem, suffix) == [dir |-> dir, stem |-> stem, suffix |-> suffix]

HomeDir == "/home/pi"

\* key_path: the default "~/.ssh/id_rsa", and a key file with an extension
KeyPathArgs ==
    {Path(<<"~", ".ssh">>, "id_rsa", ""), Path(<<"~", ".ssh">>, "cluster", ".pem")}

\* Path.expanduser()
expanduser(p) ==
    IF Len(p.dir) > 0 /\ p.dir[1] = "~"
    THEN [p EXCEPT !.dir = <<HomeDir>> \o Tail(p.dir)]
    ELSE p

\* Path.with_suffix(suffix): the last extension is replaced
with_suffix(p, suffix) == [p EXCEPT !.suffix = suffix]

\* str(path) + ".pub", where ssh-keygen -f path writes the public key
KeygenPubPath(p) == Path(p.dir, p.stem \o p.suffix, ".pub")

LocalPaths ==
    UNION {{expanduser(p), with_suffix(expanduser(p), ".pub"),
            KeygenPubPath(expanduser(p))} : p \in KeyPathArgs}

OldPrivate == <<"-----BEGIN", "old", "-----END", "\n">>
OldPublic  == <<"ssh-rsa", "AAAAold", "pi@old", "\n">>
NewPrivate == <<"-----BEGIN", "new", "-----END", "\n">>
NewPublic  == <<"ssh-rsa", "AAAAnew", "pi-swarm-cluster-key", "\n">>

Whitespace == {" ", "\t", "\n"}

\* str.strip()
RECURSIVE strip(_)
strip(text) ==
    IF text = <<>> THEN text
    ELSE IF Head(text) \in Whitespace THEN strip(Tail(text))
    ELSE IF text[Len(text)] \in Whitespace THEN strip(SubSeq(text, 1, Len(text) - 1))
    ELSE text

\* the file systems the call can find: only files of its key path exist
FileSystems(key_path) ==
    LET private == expanduser(key_path)
        own == {private, with_suffix(private, ".pub"), KeygenPubPath(private)}
    IN  {fs \in [LocalPaths -> {NoText, Some(OldPrivate), Some(OldPublic)}] :
            /\ \A p \in LocalPaths \ own : fs[p] = NoText
            /\ fs[private] # Some(OldPublic)
            /\ \A p \in own \ {private} : fs[p] # Some(OldPrivate)}

\* an existence test that finds no file
exists_never(fs, p) == FALSE

\* Path.exists()
exists(fs, p) == fs[p] # NoText

\* ssh-keygen ... -f path, when it succeeds: both files are written
ssh_keygen(fs, p) ==
    [fs EXCEPT ![p] = Some(NewPrivate), ![KeygenPubPath(p)] = Some(NewPublic)]

\* how subprocess.run([ssh-keygen ...], check=True) ends
KeygenOutcomes == {None, "CalledProcessError", "FileNotFoundError"}

\* open(path, 'r'), f.read()
read(fs, p) == IF exists(fs, p) THEN Return(fs[p][1]) ELSE Raise("FileNotFoundError")

(***************************************************************************)
(* SSHManager.setup_ssh_keys                                               *)
(***************************************************************************)
\* a node of cluster_config['nodes'] as setup_ssh_keys reads it: 'ip' and
\* 'password' (no 'username' key, so 'pi' is used)
KeyNodeConfigs == [ip : {None} \cup Hosts, password : {None, "raspberry"}]

KeyClusterNodes ==
    UNION {{[i \in 1..n |-> <<NodeName(i), q[i]>>] : q \in [1..n -> KeyNodeConfigs]} :
              n \in 0..NumHosts}

\* the remote command, as the steps its && joins
KeyCommand(public_key) ==
    << <<"mkdir", "-p", "~/.ssh">>,
       <<"echo", public_key, ">>", "~/.ssh/authorized_keys">>,
       <<"chmod", "600", "~/.ssh/authorized_keys">>,
       <<"chmod", "700", "~/.ssh">> >>

\* what a step that exits 0 does to the lines of ~/.ssh/authorized_keys
StepEffect(step, lines) ==
    IF step[1] = "echo" THEN Append(lines, step[2]) ELSE lines

\* a ; b ; ...: the chain is over after its last step only
ChainEnded_semicolons(command, chain) ==
    Len(chain) = Len(command)

\* a && b && ...: the chain is over after its last step or a non-zero status
ChainEnded(command, chain) ==
    \/ Len(chain) = Len(command)
    \/ chain # <<>> /\ chain[Len(chain)] # 0

KeyHost == k_call.nodes[k_i][2].ip

KeyCredentials ==
    SSHCredentials("pi", k_call.nodes[k_i][2].password, None, <<>>)

\* execute_command returns for the current node: results[host] = result.success
KeyRecord(run) ==
    LET outcome == execute_command(KeyHost, KeyCommand(k_public_key),
                                   KeyCredentials, DefaultTimeout, run)
    IN  IF outcome.raised # None
        THEN /\ k_pc' = "raised"
             /\ k_exc' = outcome.raised
             /\ UNCHANGED <<k_i, k_results>>
        ELSE /\ k_results' = Put(k_results, KeyHost, outcome.value[1].success)
             /\ k_i' = k_i + 1
             /\ k_pc' = "nodes"
             /\ UNCHANGED k_exc

InitKeys ==
    /\ k_call \in [nodes : KeyClusterNodes, key_path : KeyPathArgs]
    /\ files \in FileSystems(k_call.key_path)
    /\ k_pc = "check"
    /\ k_i = 0
    /\ k_chain = <<>>
    /\ k_commands = <<>>
    /\ k_public_key = <<>>
    /\ k_results = <<>>
    /\ k_exc = None
    /\ k_round = 1
    /\ k_first = <<>>
    /\ keygen_runs = 0
    /\ authorized_keys = [h \in Hosts |-> <<>>]

\* if not key_path_expanded.exists()
KeyCheck ==
    /\ k_pc = "check"
    /\ k_pc' = IF exists(files, expanduser(k_call.key_path)) THEN "read" ELSE "keygen"
    /\ UNCHANGED <<k_call, k_i, k_chain, k_commands, k_public_key, k_results,
                   k_exc, k_round, k_first, files, keygen_runs, authorized_keys>>
    /\ UNCHANGED outsideKeys

\* subprocess.run(['ssh-keygen', ...], check=True)
Keygen ==
    /\ k_pc = "keygen"
    /\ \E outcome \in KeygenOutcomes :
          /\ keygen_runs' = IF outcome = "FileNotFoundError" THEN keygen_runs
                            ELSE keygen_runs + 1
          /\ IF outcome = None
             THEN /\ files' = ssh_keygen(files, expanduser(k_call.key_path))
                  /\ k_pc' = "read"
                  /\ UNCHANGED k_exc
             ELSE /\ k_pc' = "raised"
                  /\ k_exc' = outcome
                  /\ UNCHANGED files
    /\ UNCHANGED <<k_call, k_i, k_chain, k_commands, k_public_key, k_results,
                   k_round, k_first, authorized_keys>>
    /\ UNCHANGED outsideKeys

\* with open(pub_key_path, 'r') as f: public_key = f.read().strip()
ReadPublicKey ==
    /\ k_pc = "read"
    /\ LET pub_key_path == with_suffix(expanduser(k_call.key_path), ".pub")
           text == read(files, pub_key_path)
       IN  IF text.raised # None
           THEN /\ k_pc' = "raised"
                /\ k_exc' = text.raised
                /\ UNCHANGED <<k_public_key, k_i, k_results>>
           ELSE /\ k_public_key' = strip(text.value[1])
                /\ k_results' = <<>>
                /\ k_i' = 1
                /\ k_pc' = "nodes"
                /\ UNCHANGED k_exc
    /\ UNCHANGED <<k_call, k_chain, k_commands, k_round, k_first, files,
                   keygen_runs, authorized_keys>>
    /\ UNCHANGED outsideKeys

\* one iteration of the node loop, up to the call of execute_command
KeyNodeStep ==
    /\ k_pc = "nodes"
    /\ k_i <= Len(k_call.nodes)
    /\ IF ~Truthy(KeyHost)
       THEN /\ k_i' = k_i + 1
            /\ UNCHANGED <<k_pc, k_exc, k_chain, k_commands>>
       ELSE IF KeyCredentials.raised # None
       THEN /\ k_pc' = "raised"
            /\ k_exc' = KeyCredentials.raised
            /\ UNCHANGED <<k_i, k_chain, k_commands>>
       ELSE /\ k_pc' = "remote"
            /\ k_chain' = <<>>
            /\ k_commands' = Append(k_commands, <<KeyHost, KeyCommand(k_public_key)>>)
            /\ UNCHANGED <<k_i, k_exc>>
    /\ UNCHANGED <<k_call, k_public_key, k_results, k_round, k_first, files,
                   keygen_runs, authorized_keys>>
    /\ UNCHANGED outsideKeys

\* the remote shell runs the next step of the chain
RemoteStep ==
    /\ k_pc = "remote"
    /\ ~ChainEnded(KeyCommand(k_public_key), k_chain)
    /\ \E status \in {0, 1} :
          LET step == KeyCommand(k_public_key)[Len(k_chain) + 1]
          IN  /\ k_chain' = Append(k_chain, status)
              /\ authorized_keys' =
                    IF status = 0
                    THEN [authorized_keys EXCEPT
                             ![KeyHost] = StepEffect(step, authorized_keys[KeyHost])]
                    ELSE authorized_keys
    /\ UNCHANGED <<k_call, k_pc, k_i, k_commands, k_public_key, k_results, k_exc,
                   k_round, k_first, files, keygen_runs>>
    /\ UNCHANGED outsideKeys

\* the chain is over and the ssh client exits with the status of its last step
KeyClientExits ==
    /\ k_pc = "remote"
    /\ ChainEnded(KeyCommand(k_public_key), k_chain)
    /\ KeyRecord(Completed(k_chain[Len(k_chain)], <<>>, <<>>))
    /\ UNCHANGED <<k_call, k_chain, k_commands, k_public_key, k_round, k_first,
                   files, keygen_runs, authorized_keys>>
    /\ UNCHANGED outsideKeys

\* no remote shell is started: the client cannot be run, or ssh exits 255
KeyNoSession ==
    /\ k_pc = "remote"
    /\ k_chain = <<>>
    /\ \E run \in {Completed(255, <<>>, ConnectionRefused)}
                      \cup {Raised(t) : t \in ExceptionTexts} :
          KeyRecord(run)
    /\ UNCHANGED <<k_call, k_chain, k_commands, k_public_key, k_round, k_first,
                   files, keygen_runs, authorized_keys>>
    /\ UNCHANGED outsideKeys

\* the timeout of subprocess.run fires; the session is torn down where it is
KeyTimeout ==
    /\ k_pc = "remote"
    /\ KeyRecord(TimeoutExpired)
    /\ UNCHANGED <<k_call, k_chain, k_commands, k_public_key, k_round, k_first,
                   files, keygen_runs, authorized_keys>>
    /\ UNCHANGED outsideKeys

\* return results
KeyReturn ==
    /\ k_pc = "nodes"
    /\ k_i > Len(k_call.nodes)
    /\ k_pc' = "returned"
    /\ UNCHANGED <<k_call, k_i, k_chain, k_commands, k_public_key, k_results,
                   k_exc, k_round, k_first, files, keygen_runs, authorized_keys>>
    /\ UNCHANGED outsideKeys

\* setup_ssh_keys is called a second time with the same arguments
KeyRunAgain ==
    /\ k_pc = "returned"
    /\ k_round = 1
    /\ k_round' = 2
    /\ k_first' = Some(k_results)
    /\ k_pc' = "check"
    /\ k_i' = 0
    /\ k_chain' = <<>>
    /\ k_public_key' = <<>>
    /\ k_results' = <<>>
    /\ UNCHANGED <<k_call, k_commands, k_exc, files, keygen_runs, authorized_keys>>
    /\ UNCHANGED outsideKeys

NextKeys ==
    \/ KeyCheck
    \/ Keygen
    \/ ReadPublicKey
    \/ KeyNodeStep
    \/ RemoteStep
    \/ KeyClientExits
    \/ KeyNoSession
    \/ KeyTimeout
    \/ KeyReturn
    \/ KeyRunAgain

(***************************************************************************)
(* ServiceOrchestrator (lib/python/service_orchestrator.py):               *)
(* _execute_remote_command, get_service_status, scale_service              *)
(***************************************************************************)
MaxLines == 2

DefaultRemoteTimeout == 60

ServiceNames == {"web", "db"}
ReplicaCounts == {0, 3}

\* the 'Replicas' column of docker service ls, character groups as tokens
ReplicasTexts ==
    { <<"1", "/", "1">>, <<"2", "/", "3">>, <<"0", "/", "5">>,
      <<"3", "/", "3", " (max 1 per node)">> }

\* one line of `docker service ls --format json` for the service asked for
\* (with or without a 'Replicas' key), a line that is not JSON, a blank line
JsonLine(name, replicas) == [kind |-> "json", Name |-> name, Replicas |-> replicas]
TextLine == [kind |-> "text", Name |-> "", Replicas |-> NoText]
BlankLine == [kind |-> "blank", Name |-> "", Replicas |-> NoText]

StatusLines(name) ==
    {JsonLine(name, Some(r)) : r \in ReplicasTexts}
       \cup {JsonLine(name, NoText), TextLine, BlankLine}

StatusOutputs(name) ==
    UNION {[1..n -> StatusLines(name)] : n \in 0..MaxLines}

\* how subprocess.run(['ssh', manager_host, command], ...) ends for the
\* status command and for the scale command
StatusRuns(name) ==
    {Completed(0, out, <<>>) : out \in StatusOutputs(name)}
       \cup {Completed(255, <<>>, ConnectionRefused), TimeoutExpired,
             Raised(<<"[Errno", "2]", "No", "such", "file", "or", "directory:", "'ssh'">>)}

ScaleRuns(name) ==
    { Completed(0, <<name, "converged">>, <<>>),
      Completed(1, <<>>, <<"Error:", "No", "such", "service:", name>>),
      TimeoutExpired,
      Raised(<<"[Errno", "2]", "No", "such", "file", "or", "directory:", "'ssh'">>) }

\* _execute_remote_command: (success, stdout, stderr)
_execute_remote_command(command, timeout, run) ==
    CASE run.kind = "completed" ->
            [success |-> run.returncode = 0, stdout |-> run.stdout,
             stderr |-> run.stderr]
      [] run.kind = "timeout" ->
            [success |-> FALSE, stdout |-> <<>>,
             stderr |-> CommandTimeoutMessage(timeout)]
      [] OTHER ->
            [success |-> FALSE, stdout |-> <<>>, stderr |-> run.exc]

\* str.split(sep) on a text given as tokens: the pieces between separators
RECURSIVE split(_, _)
split(tokens, sep) ==
    IF tokens = <<>> THEN <<"">>
    ELSE LET rest == split(Tail(tokens), sep)
         IN  IF Head(tokens) = sep
             THEN <<"">> \o rest
             ELSE <<Head(tokens) \o rest[1]>> \o Tail(rest)

\* int(s)
int(s) ==
    IF \E n \in 0..9 : ToString(n) = s
    THEN Return(CHOOSE n \in 0..9 : ToString(n) = s)
    ELSE Raise("ValueError")

ServiceStatus(name, desired_replicas, running_replicas) ==
    [name |-> name, desired_replicas |-> desired_replicas,
     running_replicas |-> running_replicas]

\* the loop body reading "running/desired" as "desired/running"
ParseLine_desiredFirst(line) ==
    IF line.kind # "json" THEN <<>>
    ELSE LET replicas_str == IF line.Replicas = NoText THEN <<"0", "/", "0">>
                             ELSE line.Replicas[1]
             parts == split(replicas_str, "/")
         IN  IF Len(parts) # 2 THEN <<>>
             ELSE LET running == int(parts[2])
                      desired == int(parts[1])
                  IN  IF running.raised # None \/ desired.raised # None
                      THEN <<>>
                      ELSE <<ServiceStatus(line.Name, desired.value[1],
                                           running.value[1])>>

\* the body of the loop over the lines: Some(ServiceStatus) or nothing (a
\* blank line, or a line whose parsing raised and was logged)
ParseLine(line) ==
    IF line.kind # "json" THEN <<>>
    ELSE LET replicas_str == IF line.Replicas = NoText THEN <<"0", "/", "0">>
                             ELSE line.Replicas[1]
             parts == split(replicas_str, "/")
         IN  IF Len(parts) # 2 THEN <<>>
             ELSE LET running == int(parts[1])
                      desired == int(parts[2])
                  IN  IF running.raised # None \/ desired.raised # None
                      THEN <<>>
                      ELSE <<ServiceStatus(line.Name, desired.value[1],
                                           running.value[1])>>

RECURSIVE ParseLines(_)
ParseLines(lines) ==
    IF lines = <<>> THEN <<>>
    ELSE ParseLine(Head(lines)) \o ParseLines(Tail(lines))

StatusCommand(service_name) ==
    <<"docker", "service", "ls", "--filter", "name=" \o service_name,
      "--format", "json">>

\* get_service_status(service_name), given what the status command did
get_service_status(service_name, run) ==
    LET out == _execute_remote_command(StatusCommand(service_name),
                                       DefaultRemoteTimeout, run)
    IN  IF ~out.success THEN <<>> ELSE ParseLines(out.stdout)

ScaleCommand(service_name, replicas) ==
    <<"docker", "service", "scale", service_name \o "=" \o ToString(replicas)>>

ScalingResult(service_name, success, old_replicas, new_replicas, message) ==
    [service_name |-> service_name, success |-> success,
     old_replicas |-> old_replicas, new_replicas |-> new_replicas,
     message |-> message]

InitScale ==
    /\ s_call \in [service_name : ServiceNames, replicas : ReplicaCounts]
    /\ s_pc = "status"
    /\ s_commands = <<>>
    /\ s_services = <<>>
    /\ s_runs = <<>>
    /\ s_result = <<>>

\* current_services = self.get_service_status(service_name), and the return
\* of 'Service not found' when the list is empty
ScaleGetStatus ==
    /\ s_pc = "status"
    /\ \E run \in StatusRuns(s_call.service_name) :
          LET current_services == get_service_status(s_call.service_name, run)
          IN  /\ s_services' = current_services
              /\ s_runs' = Append(s_runs, run)
              /\ IF current_services = <<>>
                 THEN /\ s_result' = Some(ScalingResult(s_call.service_name, FALSE, 0,
                                          s_call.replicas, <<"Service", "not", "found">>))
                      /\ s_pc' = "returned"
                 ELSE /\ s_pc' = "scale"
                      /\ UNCHANGED s_result
    /\ s_commands' = Append(s_commands, StatusCommand(s_call.service_name))
    /\ UNCHANGED s_call
    /\ UNCHANGED outsideScale

\* the scale command is run and the ScalingResult returned
ScaleRun ==
    /\ s_pc = "scale"
    /\ \E run \in ScaleRuns(s_call.service_name) :
          LET cmd == ScaleCommand(s_call.service_name, s_call.replicas)
              out == _execute_remote_command(cmd, DefaultRemoteTimeout, run)
              old_replicas == s_services[1].desired_replicas
          IN  /\ s_runs' = Append(s_runs, run)
              /\ s_commands' = Append(s_commands, cmd)
              /\ s_result' = Some(ScalingResult(s_call.service_name, out.success,
                                  old_replicas, s_call.replicas,
                                  IF out.success THEN out.stdout ELSE out.stderr))
    /\ s_pc' = "returned"
    /\ UNCHANGED <<s_call, s_services>>
    /\ UNCHANGED outsideScale

NextScale ==
    \/ ScaleGetStatus
    \/ ScaleRun

(***************************************************************************)
(* NetworkDiscovery.scan_network_range                                     *)
(***************************************************************************)
DefaultPingTimeout == 5
DefaultScanWorkers == 20
MaxScanAddresses == 1000
LargeScanHosts == 254

ScanWorkerCounts == {1, DefaultScanWorkers}

common_pi_ports == <<22, 80, 443, 5000, 8080>>

\* A network range text is the sequence of its tokens, the dots left out: the
\* octets, then "/" and the prefix length.  An address is the sequence of its
\* four octets.
NetworkRanges ==
    { <<"invalid">>, <<>>,
      <<"192", "168", "1", "100", "/", "30">>,
      <<"192", "168", "1", "101", "/", "30">>,
      <<"192", "168", "1", "100", "/", "31">>,
      <<"192", "168", "1", "200", "/", "31">>,
      <<"192", "168", "1", "102", "/", "32">>,
      <<"192", "168", "1", "7">>,
      <<"192", "168", "1", "300", "/", "30">>,
      <<"192", "168", "1", "100", "/", "33">>,
      <<"192", "168", "1", "100", "/">> }

\* int(token) for the decimal tokens of 0..255
Decimal ==
    [token \in {ToString(n) : n \in 0..255} |->
        CHOOSE n \in 0..255 : ToString(n) = token]

\* the number a decimal token stands for, if it is one of 0..255
Number(token) ==
    IF token \in DOMAIN Decimal THEN Some(Decimal[token]) ELSE <<>>

\* the upper and the lower 16 bits of an address
High(address) == address[1] * 256 + address[2]
Low(address)  == address[3] * 256 + address[4]

\* the address k places after address
AddressAfter(address, k) ==
    LET low  == (Low(address) + k) % 65536
        high == High(address) + (Low(address) + k) \div 65536
    IN  <<high \div 256, high % 256, low \div 256, low % 256>>

\* "has host bits set"
HostBitsSet(address, prefixlen) ==
    LET bits == 32 - prefixlen
    IN  IF bits <= 16
        THEN Low(address) % (2 ^ bits) # 0
        ELSE Low(address) # 0 \/ High(address) % (2 ^ (bits - 16)) # 0

\* ipaddress.ip_network accepting an address whose host bits are set
\* (strict=False): the bits are masked out
ip_network_lenient(network_range) ==
    LET n == Len(network_range)
        wellFormed ==
            /\ n \in {4, 6}
            /\ \A i \in 1..4 : Number(network_range[i]) # <<>>
            /\ n = 6 => /\ network_range[5] = "/"
                        /\ Number(network_range[6]) # <<>>
                        /\ Number(network_range[6])[1] <= 32
    IN  IF ~wellFormed
        THEN Raise("ValueError")
        ELSE LET address == [i \in 1..4 |-> Number(network_range[i])[1]]
                 prefixlen == IF n = 6 THEN Number(network_range[6])[1] ELSE 32
                 low == Low(address) - (Low(address) % (2 ^ (32 - prefixlen)))
             IN  Return([network_address |->
                             <<address[1], address[2], low \div 256, low % 256>>,
                         prefixlen |-> prefixlen])

\* ipaddress.ip_network(network_range) (strict): ValueError unless the text is
\* an IPv4 address, alone or followed by "/" and a prefix length of 0..32, with
\* no host bits set
ip_network(network_range) ==
    LET n == Len(network_range)
        wellFormed ==
            /\ n \in {4, 6}
            /\ \A i \in 1..4 : Number(network_range[i]) # <<>>
            /\ n = 6 => /\ network_range[5] = "/"
                        /\ Number(network_range[6]) # <<>>
                        /\ Number(network_range[6])[1] <= 32
    IN  IF ~wellFormed
        THEN Raise("ValueError")
        ELSE LET address == [i \in 1..4 |-> Number(network_range[i])[1]]
                 prefixlen == IF n = 6 THEN Number(network_range[6])[1] ELSE 32
             IN  IF HostBitsSet(address, prefixlen)
                 THEN Raise("ValueError")
                 ELSE Return([network_address |-> address,
                              prefixlen |-> prefixlen])

num_addresses(network) == 2 ^ (32 - network.prefixlen)

\* list(network.hosts()): every address of a /31 or /32, else the addresses
\* between the network address and the broadcast address
hosts(network) ==
    IF network.prefixlen >= 31
    THEN [i \in 1..num_addresses(network) |->
             AddressAfter(network.network_address, i - 1)]
    ELSE [i \in 1..(num_addresses(network) - 2) |->
             AddressAfter(network.network_address, i)]

\* the hosts scan_network_range pings
ScanHosts(network) ==
    IF num_addresses(network) > MaxScanAddresses
    THEN SubSeq(hosts(network), 1, LargeScanHosts)
    ELSE hosts(network)

\* every address the ranges above can make scan_network_range ping
ScanAddrs ==
    UNION { LET network == ip_network_lenient(r)
            IN  IF network.raised # None THEN {}
                ELSE {ScanHosts(network.value[1])[i] :
                         i \in DOMAIN ScanHosts(network.value[1])}
            : r \in NetworkRanges }

ScanCalls ==
    [offline_mode : BOOLEAN, timeout : {DefaultPingTimeout},
     network_range : NetworkRanges, max_workers : ScanWorkerCounts]

\* what `ping -c 1 -W <timeout> <host>` can do
PingRuns ==
    { Completed(0, <<>>, <<>>), Completed(1, <<>>, <<>>), TimeoutExpired,
      Raised(<<"[Errno", "2]", "No", "such", "file", "or", "directory:", "'ping'">>) }

\* the sets of ports of a host that accept a connection
OpenPortSets == { {}, {22}, {80, 443}, {22, 80}, {22, 5000, 8080} }

\* what socket.gethostbyaddr gives: no name (it raised), or a name, spelt as
\* the sequence of its characters
ReverseLookups ==
    { NoText, Some(<<"R", "P", "i", "4">>), Some(<<"n", "a", "s">>),
      Some(<<"s", "p", "i", "d", "e", "r">>) }

\* ping_host(host); run is what subprocess.run did
ping_host(self, host, run) ==
    IF self.offline_mode
    THEN host[4] \in {100, 101, 102, 200, 201}
    ELSE run.kind = "completed" /\ run.returncode = 0

\* scan_port(host, port); open is the set of ports accepting a connection
scan_port(self, host, port, open) ==
    IF self.offline_mode
    THEN host[4] \in {100, 101, 102} /\ port \in {22, 80}
    ELSE port \in open

\* get_hostname(host); lookup is what socket.gethostbyaddr gives
get_hostname(self, host, lookup) ==
    IF self.offline_mode
    THEN IF host[4] \in {100, 101, 102}
         THEN Some(<<"p", "i", "-", "n", "o", "d", "e", "-", ToString(host[4])>>)
         ELSE NoText
    ELSE lookup

pi_indicators ==
    << <<"p", "i">>,
       <<"r", "a", "s", "p", "b", "e", "r", "r", "y">>,
       <<"r", "p", "i">>,
       <<"r", "a", "s", "p", "b", "e", "r", "r", "y", "p", "i">> >>

\* detect_pi_device(host)
detect_pi_device(self, host, open, lookup) ==
    LET hostname == get_hostname(self, host, lookup)
        open_ports == SelectSeq(common_pi_ports,
                                LAMBDA port : scan_port(self, host, port, open))
        services == [i \in DOMAIN open_ports |-> "port-" \o ToString(open_ports[i])]
        ssh_score == IF \E i \in DOMAIN open_ports : open_ports[i] = 22
                     THEN 30 ELSE 0
        name_score ==
            IF /\ hostname # NoText
               /\ hostname[1] # <<>>
               /\ \E i \in DOMAIN pi_indicators :
                     Contains(lower(hostname[1]), lower(pi_indicators[i]))
            THEN 40 ELSE 0
        pi_score == ssh_score + name_score
    IN  [ip |-> host, hostname |-> hostname, is_pi |-> pi_score >= 30,
         services |-> services, os_info |-> None, pi_score |-> pi_score]

\* sorted(pi_devices, key=pi_score) without reverse=True
sorted_ascending(devices) ==
    LET place(i) == Cardinality({j \in DOMAIN devices :
                        \/ devices[j].pi_score < devices[i].pi_score
                        \/ devices[j].pi_score = devices[i].pi_score /\ j <= i})
    IN  [p \in DOMAIN devices |-> devices[CHOOSE i \in DOMAIN devices : place(i) = p]]

\* sorted(pi_devices, key=lambda x: x['pi_score'], reverse=True): the sort is
\* stable, devices of equal score keep their order
sorted(devices) ==
    LET place(i) == Cardinality({j \in DOMAIN devices :
                        \/ devices[j].pi_score > devices[i].pi_score
                        \/ devices[j].pi_score = devices[i].pi_score /\ j <= i})
    IN  [p \in DOMAIN devices |-> devices[CHOOSE i \in DOMAIN devices : place(i) = p]]

IdleDevice ==
    [ip |-> <<>>, hostname |-> NoText, is_pi |-> FALSE, services |-> <<>>,
     os_info |-> None, pi_score |-> 0]

Elements(list) == {list[i] : i \in DOMAIN list}

InitScan ==
    /\ n_call \in ScanCalls
    /\ n_pc = "parse"
    /\ n_hosts = <<>>
    /\ ping_state = [h \in ScanAddrs |-> "none"]
    /\ ping_future = [h \in ScanAddrs |-> FALSE]
    /\ alive_hosts = <<>>
    /\ det_state = [h \in ScanAddrs |-> "none"]
    /\ det_future = [h \in ScanAddrs |-> IdleDevice]
    /\ pi_devices = <<>>
    /\ n_result = <<>>

\* ip_network(network_range): return [] on ValueError, else list the hosts and
\* submit ping_host for each of them
ScanParse ==
    /\ n_pc = "parse"
    /\ LET network == ip_network(n_call.network_range)
       IN  IF network.raised # None
           THEN /\ n_pc' = "returned"
                /\ n_result' = Some(<<>>)
                /\ UNCHANGED <<n_hosts, ping_state>>
           ELSE /\ n_hosts' = ScanHosts(network.value[1])
                /\ ping_state' = [h \in ScanAddrs |->
                                    IF h \in Elements(ScanHosts(network.value[1]))
                                    THEN "queued" ELSE "none"]
                /\ n_pc' = "pinging"
                /\ UNCHANGED n_result
    /\ UNCHANGED <<n_call, ping_future, alive_hosts, det_state, det_future,
                   pi_devices>>
    /\ UNCHANGED outsideScan

\* a free worker of the first pool takes the oldest queued ping
PingStart(h) ==
    /\ ping_state[h] = "queued"
    /\ Cardinality({g \in ScanAddrs : ping_state[g] = "running"})
          < n_call.max_workers
    /\ \A i \in DOMAIN n_hosts :
          ping_state[n_hosts[i]] = "queued" => \E j \in 1..i : n_hosts[j] = h
    /\ ping_state' = [ping_state EXCEPT ![h] = "running"]
    /\ UNCHANGED <<n_call, n_pc, n_hosts, ping_future, alive_hosts, det_state,
                   det_future, pi_devices, n_result>>
    /\ UNCHANGED outsideScan

\* ping_host(h) ends in its worker
PingFinish(h) ==
    /\ ping_state[h] = "running"
    /\ \E run \in (IF n_call.offline_mode THEN {NotRun} ELSE PingRuns) :
          ping_future' = [ping_future EXCEPT ![h] = ping_host(n_call, h, run)]
    /\ ping_state' = [ping_state EXCEPT ![h] = "finished"]
    /\ UNCHANGED <<n_call, n_pc, n_hosts, alive_hosts, det_state, det_future,
                   pi_devices, n_result>>
    /\ UNCHANGED outsideScan

\* one iteration of `for future in as_completed(ping_futures)`
PingCollect(h) ==
    /\ n_pc = "pinging"
    /\ ping_state[h] = "finished"
    /\ ping_state' = [ping_state EXCEPT ![h] = "yielded"]
    /\ alive_hosts' = IF ping_future[h] THEN Append(alive_hosts, h)
                      ELSE alive_hosts
    /\ UNCHANGED <<n_call, n_pc, n_hosts, ping_future, det_state, det_future,
                   pi_devices, n_result>>
    /\ UNCHANGED outsideScan

\* the first pool is left: with no alive host sorted([]) is returned, else
\* detect_pi_device is submitted for each alive host
BeginDetect ==
    /\ n_pc = "pinging"
    /\ \A h \in Elements(n_hosts) : ping_state[h] = "yielded"
    /\ IF alive_hosts = <<>>
       THEN /\ n_pc' = "returned"
            /\ n_result' = Some(sorted(pi_devices))
            /\ UNCHANGED det_state
       ELSE /\ n_pc' = "detecting"
            /\ det_state' = [h \in ScanAddrs |->
                               IF h \in Elements(alive_hosts)
                               THEN "queued" ELSE "none"]
            /\ UNCHANGED n_result
    /\ UNCHANGED <<n_call, n_hosts, ping_state, ping_future, alive_hosts,
                   det_future, pi_devices>>
    /\ UNCHANGED outsideScan

Min(a, b) == IF a <= b THEN a ELSE b

\* a free worker of the second pool takes the oldest queued detection
DetectStart(h) ==
    /\ det_state[h] = "queued"
    /\ Cardinality({g \in ScanAddrs : det_state[g] = "running"})
          < Min(n_call.max_workers, Len(alive_hosts))
    /\ \A i \in DOMAIN alive_hosts :
          det_state[alive_hosts[i]] = "queued" =>
             \E j \in 1..i : alive_hosts[j] = h
    /\ det_state' = [det_state EXCEPT ![h] = "running"]
    /\ UNCHANGED <<n_call, n_pc, n_hosts, ping_state, ping_future, alive_hosts,
                   det_future, pi_devices, n_result>>
    /\ UNCHANGED outsideScan

\* detect_pi_device(h) ends in its worker
DetectFinish(h) ==
    /\ det_state[h] = "running"
    /\ \E open \in (IF n_call.offline_mode THEN {{}} ELSE OpenPortSets),
          lookup \in (IF n_call.offline_mode THEN {NoText} ELSE ReverseLookups) :
          det_future' = [det_future EXCEPT
                            ![h] = detect_pi_device(n_call, h, open, lookup)]
    /\ det_state' = [det_state EXCEPT ![h] = "finished"]
    /\ UNCHANGED <<n_call, n_pc, n_hosts, ping_state, ping_future, alive_hosts,
                   pi_devices, n_result>>
    /\ UNCHANGED outsideScan

\* one iteration of `for future in as_completed(scan_futures)`
DetectCollect(h) ==
    /\ n_pc = "detecting"
    /\ det_state[h] = "finished"
    /\ det_state' = [det_state EXCEPT ![h] = "yielded"]
    /\ pi_devices' = IF det_future[h].is_pi \/ det_future[h].pi_score > 0
                     THEN Append(pi_devices, det_future[h])
                     ELSE pi_devices
    /\ UNCHANGED <<n_call, n_pc, n_hosts, ping_state, ping_future, alive_hosts,
                   det_future, n_result>>
    /\ UNCHANGED outsideScan

\* the second pool is left and the sorted devices are returned
ScanReturn ==
    /\ n_pc = "detecting"
    /\ \A h \in Elements(alive_hosts) : det_state[h] = "yielded"
    /\ n_pc' = "returned"
    /\ n_result' = Some(sorted(pi_devices))
    /\ UNCHANGED <<n_call, n_hosts, ping_state, ping_future, alive_hosts,
                   det_state, det_future, pi_devices>>
    /\ UNCHANGED outsideScan

NextScan ==
    \/ ScanParse
    \/ \E h \in ScanAddrs : PingStart(h)
    \/ \E h \in ScanAddrs : PingFinish(h)
    \/ \E h \in ScanAddrs : PingCollect(h)
    \/ BeginDetect
    \/ \E h \in ScanAddrs : DetectStart(h)
    \/ \E h \in ScanAddrs : DetectFinish(h)
    \/ \E h \in ScanAddrs : DetectCollect(h)
    \/ ScanReturn

(***************************************************************************)
(* ServiceOrchestrator._resolve_dependencies                               *)
(***************************************************************************)
MaxServices == 3

TemplateNames == {"db", "web", "cache"}

\* the depends_on lists: names of templates and of a service that has none
DependsOnLists ==
    { <<>>, <<"db">>, <<"web">>, <<"cache">>, <<"missing">>, <<"db", "cache">> }

\* a ServiceTemplate; the fields _resolve_dependencies reads, and the image
\* standing for the others in the dataclass's ==
ServiceTemplate(name, image, depends_on) ==
    [name |-> name, image |-> image, depends_on |-> depends_on]

ServiceTemplates ==
    {ServiceTemplate(n, n \o ":latest", d) :
        n \in TemplateNames, d \in DependsOnLists}

ServiceLists ==
    UNION {[1..n -> ServiceTemplates] : n \in 0..MaxServices}

\* list.remove(x): the first element equal to x is removed
remove(list, x) ==
    LET at == CHOOSE i \in DOMAIN list :
                  list[i] = x /\ \A j \in 1..(i - 1) : list[j] # x
    IN  SubSeq(list, 1, at - 1) \o SubSeq(list, at + 1, Len(list))

\* deps_resolved taken to hold of every service
deps_resolved_always(resolved, service) == TRUE

\* all(any(s.name == dep for s in resolved) for dep in service.depends_on)
deps_resolved(resolved, service) ==
    \A d \in DOMAIN service.depends_on :
       \E r \in DOMAIN resolved : resolved[r].name = service.depends_on[d]

\* `for service in ready: remaining.remove(service)`, from position i of
\* ready on, ready being a list of its own
RECURSIVE RemoveEach(_, _, _)
RemoveEach(remaining, ready, i) ==
    IF i > Len(ready) THEN remaining
    ELSE RemoveEach(remove(remaining, ready[i]), ready, i + 1)

\* the same loop after `ready = remaining`: the list iterated is the list the
\* elements are removed from, and the iterator goes by position
RECURSIVE RemoveEachAliased(_, _)
RemoveEachAliased(remaining, i) ==
    IF i > Len(remaining) THEN remaining
    ELSE RemoveEachAliased(remove(remaining, remaining[i]), i + 1)

\* one pass of `while remaining:`
ResolveStep(resolved, remaining) ==
    LET ready == SelectSeq(remaining, LAMBDA s : deps_resolved(resolved, s))
    IN  IF ready = <<>>
        THEN [resolved |-> resolved \o remaining,
              remaining |-> RemoveEachAliased(remaining, 1)]
        ELSE [resolved |-> resolved \o ready,
              remaining |-> RemoveEach(remaining, ready, 1)]

InitResolve ==
    /\ d_services \in ServiceLists
    /\ d_resolved = <<>>
    /\ d_remaining = d_services
    /\ d_pc = "loop"

\* the body of the while loop, once
ResolvePass ==
    /\ d_pc = "loop"
    /\ d_remaining # <<>>
    /\ d_resolved' = ResolveStep(d_resolved, d_remaining).resolved
    /\ d_remaining' = ResolveStep(d_resolved, d_remaining).remaining
    /\ UNCHANGED <<d_services, d_pc>>
    /\ UNCHANGED outsideResolve

\* remaining is empty: return resolved
ResolveReturn ==
    /\ d_pc = "loop"
    /\ d_remaining = <<>>
    /\ d_pc' = "returned"
    /\ UNCHANGED <<d_services, d_resolved, d_remaining>>
    /\ UNCHANGED outsideResolve

NextResolve ==
    \/ ResolvePass
    \/ ResolveReturn

(***************************************************************************)
(* Specifications                                                          *)
(***************************************************************************)
IdleCred ==
    /\ c_args = [username |-> "", password |-> None,
                 private_key_path |-> None, port |-> <<>>]
    /\ c_pc = "idle"
    /\ c_obj = IdleCredObj

IdleOp ==
    /\ op = [kind |-> "none"]
    /\ op_pc = "idle"
    /\ op_cmd = <<>>
    /\ op_run = NotRun
    /\ op_result = <<>>
    /\ remote = "idle"

IdleBatch ==
    /\ b_call = [op |-> "none"]
    /\ b_pc = "idle"
    /\ b_next = 0
    /\ unit_state = [h \in Hosts |-> "none"]
    /\ unit_args = [h \in Hosts |-> IdleCredObj]
    /\ unit_run = [h \in Hosts |-> NotRun]
    /\ future = [h \in Hosts |-> IdleFuture]
    /\ yielded = {}
    /\ results = <<>>
    /\ b_exc = None

IdleFleet ==
    /\ f_config = <<>>
    /\ f_pc = "idle"
    /\ f_i = 0
    /\ f_hosts_credentials = <<>>
    /\ f_summary = <<>>
    /\ f_exc = None

IdleTwice ==
    /\ host_run = [h \in Hosts |-> NotRun]
    /\ f_round = 1
    /\ f_first = <<>>

IdleKeys ==
    /\ k_call = [nodes |-> <<>>, key_path |-> Path(<<>>, "", "")]
    /\ k_pc = "idle"
    /\ k_i = 0
    /\ k_chain = <<>>
    /\ k_commands = <<>>
    /\ k_public_key = <<>>
    /\ k_results = <<>>
    /\ k_exc = None
    /\ k_round = 1
    /\ k_first = <<>>
    /\ files = [p \in LocalPaths |-> NoText]
    /\ keygen_runs = 0
    /\ authorized_keys = [h \in Hosts |-> <<>>]

IdleScale ==
    /\ s_call = [service_name |-> "", replicas |-> 0]
    /\ s_pc = "idle"
    /\ s_commands = <<>>
    /\ s_services = <<>>
    /\ s_runs = <<>>
    /\ s_result = <<>>

IdleScan ==
    /\ n_call = [offline_mode |-> FALSE, timeout |-> 0, network_range |-> <<>>,
                 max_workers |-> 0]
    /\ n_pc = "idle"
    /\ n_hosts = <<>>
    /\ ping_state = [h \in ScanAddrs |-> "none"]
    /\ ping_future = [h \in ScanAddrs |-> FALSE]
    /\ alive_hosts = <<>>
    /\ det_state = [h \in ScanAddrs |-> "none"]
    /\ det_future = [h \in ScanAddrs |-> IdleDevice]
    /\ pi_devices = <<>>
    /\ n_result = <<>>

IdleResolve ==
    /\ d_services = <<>>
    /\ d_resolved = <<>>
    /\ d_remaining = <<>>
    /\ d_pc = "idle"

\* SSHCredentials construction
InitSpecCred ==
    InitCred /\ IdleOp /\ IdleBatch /\ IdleFleet /\ IdleTwice /\ IdleKeys /\ IdleScale
       /\ IdleScan /\ IdleResolve
SpecCred == InitSpecCred /\ [][Construct]_vars

\* one test_connection / execute_command call
InitSpecOp ==
    IdleCred /\ InitOp /\ IdleBatch /\ IdleFleet /\ IdleTwice /\ IdleKeys /\ IdleScale
       /\ IdleScan /\ IdleResolve
SpecOp == InitSpecOp /\ [][NextOp]_vars

\* one validate_cluster_connectivity call
InitSpecFleet ==
    IdleCred /\ IdleOp /\ IdleBatch /\ InitFleet /\ IdleTwice /\ IdleKeys /\ IdleScale
       /\ IdleScan /\ IdleResolve
SpecFleet == InitSpecFleet /\ [][NextFleet]_vars

\* one test_multiple_connections / execute_parallel_commands call
Init ==
    IdleCred /\ IdleOp /\ InitBatch /\ IdleFleet /\ IdleTwice /\ IdleKeys /\ IdleScale
       /\ IdleScan /\ IdleResolve
Next == NextBatch
Spec == Init /\ [][Next]_vars

\* validate_cluster_connectivity called twice in a row, the hosts unchanged
InitSpecTwice ==
    IdleCred /\ IdleOp /\ IdleBatch /\ InitFleet /\ InitTwice /\ IdleKeys /\ IdleScale
       /\ IdleScan /\ IdleResolve
SpecTwice == InitSpecTwice /\ [][NextTwice]_vars

\* setup_ssh_keys, called once or twice in a row
InitSpecKeys ==
    IdleCred /\ IdleOp /\ IdleBatch /\ IdleFleet /\ IdleTwice /\ InitKeys /\ IdleScale
       /\ IdleScan /\ IdleResolve
SpecKeys == InitSpecKeys /\ [][NextKeys]_vars

\* one scale_service call
InitSpecScale ==
    IdleCred /\ IdleOp /\ IdleBatch /\ IdleFleet /\ IdleTwice /\ IdleKeys /\ InitScale
       /\ IdleScan /\ IdleResolve
SpecScale == InitSpecScale /\ [][NextScale]_vars

\* one scan_network_range call
InitSpecScan ==
    IdleCred /\ IdleOp /\ IdleBatch /\ IdleFleet /\ IdleTwice /\ IdleKeys /\ IdleScale
       /\ InitScan /\ IdleResolve
SpecScan == InitSpecScan /\ [][NextScan]_vars

\* one _resolve_dependencies call
InitSpecResolve ==
    IdleCred /\ IdleOp /\ IdleBatch /\ IdleFleet /\ IdleTwice /\ IdleKeys /\ IdleScale
       /\ IdleScan /\ InitResolve
SpecResolve == InitSpecResolve /\ [][NextResolve]_vars

\* one batch call in which every step that can be taken is taken in the end:
\* the dispatcher thread runs on, a queued unit is started once a worker is
\* free, and every started unit ends (subprocess.run returns, raises, or
\* raises TimeoutExpired after its timeout)
\* (each of these steps changes one of the variables of progress)
progress == <<b_pc, b_next, unit_state, yielded>>
FairBatch ==
    /\ WF_progress(Submit)
    /\ WF_progress(BeginCollect)
    /\ \A h \in Hosts : WF_progress(StartUnit(h))
    /\ \A h \in Hosts : WF_progress(FinishUnit(h))
    /\ \A h \in Hosts : WF_progress(Collect(h))
    /\ WF_progress(Shutdown)
SpecFair == Init /\ [][Next]_vars /\ FairBatch

(***************************************************************************)
(* Properties of the batch calls                                           *)
(***************************************************************************)
Requested == KeySet(Items(b_call))

\* C1: when test_multiple_connections or execute_parallel_commands has
\* returned, the mapping it returns has exactly one entry for each of the N
\* requested hosts and no other entry, whatever the units did (exit 0, failed,
\* timed out, raised) and in whatever order they completed.
C1_OneEntryPerRequestedHost ==
    b_pc = "returned" =>
        /\ Len(results) = Len(Items(b_call))
        /\ KeySet(results) = Requested
        /\ Cardinality(KeySet(results)) = Len(results)

\* a returned batch of 2 or more hosts in which a unit raised, a unit timed
\* out, and the units completed in another order than they were submitted
C1_Witness ==
    /\ b_pc = "returned"
    /\ Len(Items(b_call)) >= 2
    /\ \E h \in Requested : unit_run[h].kind = "unit_exception"
    /\ \E h \in Requested : unit_run[h].kind = "timeout"
    /\ Keys(results) # Keys(Items(b_call))

\* C2: no exception escapes a batch call made with valid credential objects,
\* for any host set and any credentials map, the empty map included.
C2_NoExceptionEscapes ==
    b_exc = None /\ b_pc \notin {"unwinding", "raised"}

HasCause(message, words) == Len(message) = 1 /\ Contains(message[1], words)

\* C3: in a returned batch every host's result reflects that host's own unit:
\* exit 0 gives success, exit 255 with "connection refused" in stderr gives a
\* probe failure whose message names the connectivity cause, a transport
\* exception or an exception raised by the unit gives a failure carrying the
\* exception text; and once a unit has been submitted no exception escapes
\* the batch call.
C3_ResultsArePerHost ==
    /\ Submitted # {} => b_exc = None
    /\ b_pc = "returned" =>
          \A h \in Requested :
             /\ Has(results, h)
             /\ LET r == Get(results, h)
                    run == unit_run[h]
                    probe == b_call.op = "test_multiple_connections"
                IN  /\ r.host = h
                    /\ run.kind = "completed" /\ run.returncode = 0 => r.success
                    /\ run.kind = "completed" /\ run.returncode # 0 => ~r.success
                    /\ probe /\ run = Completed(255, <<>>, ConnectionRefused) =>
                          /\ HasCause(r.error_message, <<"host", "unreachable">>)
                          /\ HasCause(r.error_message,
                                      <<"Ensure", "SSH", "server", "is", "running">>)
                    /\ run.kind = "error" =>
                          /\ ~r.success
                          /\ IF probe THEN r.error_message = Some(run.exc)
                                      ELSE r.stderr = run.exc
                    /\ run.kind = "unit_exception" =>
                          /\ ~r.success
                          /\ IF probe
                             THEN HasCause(r.error_message, run.exc)
                             ELSE Contains(r.stderr, run.exc)

\* the scenario of three outcomes in one returned probe batch (two of them
\* share the batch when only two hosts are requested): a success next to a
\* refused connection next to a raising unit
C3_Witness ==
    /\ b_pc = "returned"
    /\ b_call.op = "test_multiple_connections"
    /\ \E h \in Requested : unit_run[h].kind = "unit_exception"
    /\ \E h \in Requested :
          /\ unit_run[h] = Completed(255, <<>>, ConnectionRefused)
          /\ ~Get(results, h).success

(***************************************************************************)
(* Properties of SSHCredentials                                            *)
(***************************************************************************)
\* C4: constructing credentials fails with the configuration error
\* (ValueError) exactly when both password and private_key_path are absent
\* (None or empty: the code tests their truth value); when at least one is
\* present it succeeds, keeps the arguments, and port is 22 when none is given.
C4_ConstructionFailsIffNoAuth ==
    c_pc \in {"constructed", "raised"} =>
        LET absent == ~Truthy(c_args.password) /\ ~Truthy(c_args.private_key_path)
        IN  /\ absent <=> (c_pc = "raised" /\ c_obj.raised = "ValueError")
            /\ ~absent <=> (c_pc = "constructed" /\ c_obj.raised = None)
            /\ c_pc = "constructed" =>
                  /\ c_obj.username = c_args.username
                  /\ c_obj.password = c_args.password
                  /\ c_obj.private_key_path = c_args.private_key_path
                  /\ c_args.port = <<>> => c_obj.port = 22
                  /\ c_args.port # <<>> => c_obj.port = c_args.port[1]

\* a construction refused because the password is empty and no key path is given
C4_Witness ==
    /\ c_pc = "raised"
    /\ c_args.password = ""
    /\ c_args.private_key_path = None

(***************************************************************************)
(* Properties of one test_connection / execute_command call                *)
(***************************************************************************)
OpReturned == op_pc = "returned" /\ Len(op_result) = 1

\* the runs test_connection reports as an authentication failure, and the
\* messages it produces for them
AuthFailureRuns ==
    {r \in Runs : /\ r.kind = "completed"
                  /\ r.returncode # 0
                  /\ \/ r.returncode \in {5, 6}
                     \/ Contains(lower(r.stderr), <<"permission", "denied">>)}

AuthFailureMessages ==
    {_interpret_ssh_error(r.returncode, r.stderr) : r \in AuthFailureRuns}

\* the probes the ssh client itself gave up on (its ConnectTimeout option)
TransportTimeoutRun(run) ==
    /\ run.kind = "completed"
    /\ run.returncode \notin {0, 5, 6}
    /\ \/ Contains(lower(run.stderr), <<"timed", "out">>)
       \/ Contains(lower(run.stderr), <<"timeout">>)

\* C5: a probe whose subprocess timeout fires returns success=false with the
\* message "Connection timeout after <connection_timeout> seconds", which
\* names the timeout and is none of the messages the prober produces for an
\* authentication failure; nor is a probe on which the ssh client itself
\* timed out reported with an authentication-failure message.
C5_TimeoutIsNotAuthFailure ==
    /\ op.kind = "test_connection" /\ op_pc # "in_flight" /\ op_run.kind = "timeout" =>
        /\ OpReturned
        /\ ~op_result[1].success
        /\ op_result[1].auth_method = None
        /\ Len(op_result[1].error_message) = 1
        /\ LET m == op_result[1].error_message[1]
           IN  /\ m = ConnectionTimeoutMessage(op.connection_timeout)
               /\ Contains(lower(m), <<"timeout">>)
               /\ m \notin AuthFailureMessages
               /\ ~Contains(lower(m), <<"authentication">>)
               /\ ~Contains(lower(m), <<"password/key.">>)
    /\ (op.kind = "test_connection" /\ OpReturned /\ TransportTimeoutRun(op_run)) =>
          /\ ~op_result[1].success
          /\ Len(op_result[1].error_message) = 1
          /\ op_result[1].error_message[1] \notin AuthFailureMessages
          /\ ~Contains(lower(op_result[1].error_message[1]), <<"authentication">>)

\* a probe that returned because its subprocess timeout fired
C5_Witness ==
    /\ op.kind = "test_connection"
    /\ OpReturned
    /\ op_run.kind = "timeout"

\* C6: test_connection and execute_command never raise: whatever the
\* transport did (exit 0, another exit code, timeout, an exception before or
\* while the client ran) the call returns a result object for its host, and
\* the result has success=false unless the client exited 0.
C6_NeverRaises ==
    /\ op_pc # "raised"
    /\ op_run.kind # "none" =>
          /\ OpReturned
          /\ op_result[1].host = op.host
          /\ op_result[1].success <=>
                (op_run.kind = "completed" /\ op_run.returncode = 0)

\* execute_command returned a result although its client could not be started
C6_Witness ==
    /\ op.kind = "execute_command"
    /\ OpReturned
    /\ op_run.kind = "error"
    /\ remote = "idle"
    /\ ~op_result[1].success

\* C7: when the timeout of execute_command fires, the call returns at that
\* step, with the remote command still running, a result with success=false,
\* exit_code=-1 and the timeout message in stderr; a transport exception
\* gives success=false, exit_code=-1 and the exception text in stderr.
C7_TimeoutShape ==
    [][ (op.kind = "execute_command" /\ op_pc # "returned" /\ op_pc' = "returned"
            /\ op_run'.kind \in {"timeout", "error"}) =>
          /\ Len(op_result') = 1
          /\ ~op_result'[1].success
          /\ op_result'[1].exit_code = -1
          /\ op_result'[1].host = op.host
          /\ op_result'[1].command = op.command
          /\ op_run'.kind = "timeout" =>
                /\ op_result'[1].stderr = CommandTimeoutMessage(op.timeout)
                /\ Contains(lower(op_result'[1].stderr), <<"timeout">>)
                /\ remote' = "running"
          /\ op_run'.kind = "error" => op_result'[1].stderr = op_run'.exc ]_vars

\* execute_command has returned on its 1-second timeout while the remote
\* "sleep 5" still runs
C7_Witness ==
    /\ op.kind = "execute_command"
    /\ op.command = "sleep 5"
    /\ op.timeout = 1
    /\ OpReturned
    /\ op_run.kind = "timeout"
    /\ remote = "running"
    /\ op_result[1].exit_code = -1

\* the authentication mode the code is to choose for credentials
AuthMode(credentials) ==
    IF Truthy(credentials.password) THEN "password" ELSE "key"

\* C8: the client is invoked with password authentication if a password is
\* present and with the key otherwise; a successful probe reports that mode
\* as auth_method; and test_connection and execute_command invoke the client
\* in the same mode for the same credentials, also when the credentials carry
\* both a password and a key path.
C8_AuthModeAgrees ==
    op_pc \notin {"idle", "not_attempted"} =>
        /\ CmdAuth(op_cmd) = AuthMode(op.credentials)
        /\ CmdAuth(ProbeCmd(op.connection_timeout, op.host, op.credentials))
             = CmdAuth(ExecCmd(op.connection_timeout, op.host, op.command,
                               op.credentials))
        /\ (op.kind = "test_connection" /\ OpReturned /\ op_result[1].success) =>
              /\ op_result[1].auth_method = CmdAuth(op_cmd)
              /\ Truthy(op.credentials.password) =>
                    op_result[1].auth_method = "password"
              /\ ~Truthy(op.credentials.password) =>
                    op_result[1].auth_method = "key"

\* a successful probe with credentials that carry a password and a key path
C8_Witness ==
    /\ op.kind = "test_connection"
    /\ OpReturned
    /\ op_result[1].success
    /\ Truthy(op.credentials.password)
    /\ Truthy(op.credentials.private_key_path)
    /\ op_result[1].auth_method = "password"

(***************************************************************************)
(* Properties of validate_cluster_connectivity                             *)
(***************************************************************************)
\* the hosts test_multiple_connections was called with
Probed == KeySet(f_hosts_credentials)

\* the hosts whose probe exited 0
ProbedOk ==
    {h \in Probed : unit_run[h].kind = "completed" /\ unit_run[h].returncode = 0}

SeqSet(q) == {q[i] : i \in DOMAIN q}

\* C9: the success rate of the summary is 100 x successful/total (as exact
\* rationals: rate x total = 100 x successful), lies between 0 and 100, and
\* is 0, with no division error, when no host was probed.
C9_SuccessRate ==
    /\ f_exc # "ZeroDivisionError"
    /\ f_pc = "returned" =>
          /\ Len(f_summary) = 1
          /\ LET rate == f_summary[1].success_rate
                 total == Cardinality(Probed)
                 successful == Cardinality(ProbedOk)
             IN  /\ rate.den > 0
                 /\ rate.num * total = 100 * successful * rate.den
                 /\ rate.num >= 0
                 /\ rate.num <= 100 * rate.den
                 /\ total = 0 => rate.num = 0
                 /\ f_summary[1].total_nodes = total
                 /\ f_summary[1].successful_connections = successful

\* a summary over two probed hosts of which one answered: the rate is 50
C9_Witness ==
    /\ f_pc = "returned"
    /\ Cardinality(Probed) = 2
    /\ Cardinality(ProbedOk) = 1
    /\ f_summary[1].success_rate = [num |-> 50, den |-> 1]

\* the counts and the partition of the summary
SummaryPartition(summary) ==
    /\ summary.total_nodes
         = summary.successful_connections + summary.failed_connections
    /\ summary.successful_connections = Len(summary.successful_hosts)
    /\ summary.failed_connections = Len(summary.failed_hosts)
    /\ Cardinality(SeqSet(summary.successful_hosts)) = Len(summary.successful_hosts)
    /\ Cardinality(SeqSet(summary.failed_hosts)) = Len(summary.failed_hosts)
    /\ SeqSet(summary.successful_hosts) \cap SeqSet(summary.failed_hosts) = {}
    /\ SeqSet(summary.successful_hosts) \cup SeqSet(summary.failed_hosts) = Probed
    /\ SeqSet(summary.successful_hosts) = ProbedOk

\* the error message an entry of the failed-host list carries: an entry is a
\* bare host address
EntryMessage(entry) == IF entry \in Hosts THEN NoText ELSE entry[2]

\* C10 as claimed: total = successful + failed, the two host lists partition
\* the probed hosts, and every entry of the failed-host list gives the error
\* message of its host.
C10_FailedListGivesMessages ==
    f_pc = "returned" =>
        /\ SummaryPartition(f_summary[1])
        /\ \A i \in DOMAIN f_summary[1].failed_hosts :
              /\ EntryMessage(f_summary[1].failed_hosts[i]) # NoText
              /\ EntryMessage(f_summary[1].failed_hosts[i])
                   = Get(results, f_summary[1].failed_hosts[i]).error_message

\* C10 amended: total = successful + failed, the two host lists are disjoint
\* and together are exactly the probed hosts, the failed-host list holds the
\* addresses of the failed hosts only, and the error message of each failed
\* host is the error_message of its entry in the summary's detailed_results.
C10_PartitionAndDetailedMessages ==
    f_pc = "returned" =>
        /\ SummaryPartition(f_summary[1])
        /\ f_summary[1].detailed_results = results
        /\ \A i \in DOMAIN f_summary[1].failed_hosts :
              LET host == f_summary[1].failed_hosts[i]
              IN  /\ host \in Probed
                  /\ Has(f_summary[1].detailed_results, host)
                  /\ ~Get(f_summary[1].detailed_results, host).success
                  /\ Len(Get(f_summary[1].detailed_results, host).error_message) = 1
                  /\ Get(f_summary[1].detailed_results, host).host = host

\* a summary with a successful and a failed host
C10_Witness ==
    /\ f_pc = "returned"
    /\ Len(f_summary[1].successful_hosts) = 1
    /\ Len(f_summary[1].failed_hosts) = 1
    /\ unit_run[f_summary[1].failed_hosts[1]].kind = "timeout"

(***************************************************************************)
(* Properties of setup_ssh_keys                                            *)
(***************************************************************************)
\* how many lines of a file are the given line
Copies(lines, line) == Cardinality({i \in DOMAIN lines : lines[i] = line})

\* the hosts of the nodes that have an address
KeyHosts == {k_call.nodes[i][2].ip : i \in DOMAIN k_call.nodes} \ {None}

\* host is the address of exactly one node
OneNode(host) == Cardinality({i \in DOMAIN k_call.nodes : k_call.nodes[i][2].ip = host}) = 1

\* both of two consecutive calls returned, reported success for host, and
\* sent it the same public key
TwiceSuccessful(host) ==
    /\ k_round = 2
    /\ k_pc = "returned"
    /\ OneNode(host)
    /\ Has(k_first[1], host) /\ Get(k_first[1], host)
    /\ Has(k_results, host) /\ Get(k_results, host)
    /\ \A i \in DOMAIN k_commands :
          k_commands[i][1] = host => k_commands[i][2] = KeyCommand(k_public_key)

\* C11: key distribution is idempotent: after setup_ssh_keys has run twice
\* against the same host with the same public key, both runs reporting
\* success for the host, the host's authorized_keys holds exactly one copy
\* of that key.
C11_DistributionIsIdempotent ==
    \A host \in Hosts :
       TwiceSuccessful(host) => Copies(authorized_keys[host], k_public_key) = 1

(***************************************************************************)
(* Properties of two consecutive validate_cluster_connectivity calls       *)
(***************************************************************************)
\* the second of the two calls has returned its summary
SecondReturned == f_round = 2 /\ f_pc = "returned"

\* C12: validate_cluster_connectivity is stateless: called twice in a row on
\* the same cluster, each host's probe ending the same way both times, the
\* second call ends as the first did and its summary has the same success
\* rate, the same counts and the same sets of successful and of failed hosts,
\* whatever the orders in which the units of the two calls completed.
C12_ValidateIsStateless ==
    /\ f_round = 2 => f_pc # "raised"
    /\ SecondReturned =>
          LET first == f_first[1]
              second == f_summary[1]
          IN  /\ second.success_rate = first.success_rate
              /\ second.total_nodes = first.total_nodes
              /\ second.successful_connections = first.successful_connections
              /\ second.failed_connections = first.failed_connections
              /\ SeqSet(second.successful_hosts) = SeqSet(first.successful_hosts)
              /\ SeqSet(second.failed_hosts) = SeqSet(first.failed_hosts)

\* two calls over two hosts, one answering and one refusing, whose units
\* completed in opposite orders
C12_Witness ==
    /\ SecondReturned
    /\ Len(f_summary[1].successful_hosts) = 1
    /\ Len(f_summary[1].failed_hosts) = 1
    /\ Keys(f_summary[1].detailed_results) # Keys(f_first[1].detailed_results)

(***************************************************************************)
(* Properties of execute_parallel_commands                                 *)
(***************************************************************************)
\* the default credential set of a batch: the first value of the map
DefaultCredentials(credentials_map) == Values(credentials_map)[1]

\* C13: in execute_parallel_commands the unit of a host that has an entry in
\* credentials_map is submitted with exactly that entry, and never with the
\* entry of another host; the unit of a host that has no entry is submitted
\* with the default credential set, which is the first value of the map; and
\* once the submitting is over every requested host has its unit.
C13_CredentialsPerHost ==
    b_call.op = "execute_parallel_commands" =>
       LET credentials_map == b_call.credentials_map
       IN  /\ \A h \in Submitted :
                IF Has(credentials_map, h)
                THEN /\ unit_args[h] = Get(credentials_map, h)
                     /\ \A g \in KeySet(credentials_map) \ {h} :
                           unit_args[h] # Get(credentials_map, g)
                ELSE unit_args[h] = DefaultCredentials(credentials_map)
           /\ b_pc \in {"collecting", "returned"} => Submitted = Requested

\* a batch in which one host ran with its own entry and the other host,
\* without an entry, ran with the default, which is that same entry
C13_Witness ==
    /\ b_call.op = "execute_parallel_commands"
    /\ b_pc = "returned"
    /\ \E h, g \in Submitted :
          /\ ~Has(b_call.credentials_map, h)
          /\ Has(b_call.credentials_map, g)
          /\ unit_args[g] = Get(b_call.credentials_map, g)
          /\ unit_args[h] = DefaultCredentials(b_call.credentials_map)
          /\ unit_args[h] = unit_args[g]

(***************************************************************************)
(* Configuration errors in validate_cluster_connectivity                   *)
(***************************************************************************)
\* node i has an address and neither a password nor a key path
Misconfigured(i) ==
    /\ Truthy(f_config[i][2].ip)
    /\ ~Truthy(f_config[i][2].password)
    /\ ~Truthy(f_config[i][2].ssh_key_path)

\* node i has an address and a password or a key path
WellConfigured(i) ==
    /\ Truthy(f_config[i][2].ip)
    /\ Truthy(f_config[i][2].password) \/ Truthy(f_config[i][2].ssh_key_path)

FleetEnded == f_pc \in {"returned", "raised"}

\* C14 as claimed: when validate_cluster_connectivity has ended on a cluster
\* with a misconfigured node, every other (well configured) node has been
\* probed and has its entry in the summary.
C14_OtherNodesStillProbed ==
    (FleetEnded /\ \E i \in DOMAIN f_config : Misconfigured(i)) =>
       \A j \in DOMAIN f_config :
          WellConfigured(j) =>
             /\ unit_state[f_config[j][2].ip] = "finished"
             /\ Len(f_summary) = 1
             /\ Has(f_summary[1].detailed_results, f_config[j][2].ip)

\* C14 (amended): a misconfigured node makes validate_cluster_connectivity
\* raise the configuration error (ValueError) out of its node loop, before
\* test_multiple_connections is entered: no node of the cluster is probed
\* and no summary is returned; and the call raises ValueError only for a
\* misconfigured node, at the first such node of the cluster.
C14_ConfigurationErrorAborts ==
    /\ (\E i \in DOMAIN f_config : Misconfigured(i)) =>
          /\ f_pc \in {"nodes", "raised"}
          /\ b_pc = "idle"
          /\ \A h \in Hosts : unit_state[h] = "none"
          /\ f_summary = <<>>
          /\ \A i \in DOMAIN f_config : Misconfigured(i) => f_i <= i
    /\ f_exc = "ValueError" =>
          /\ f_pc = "raised"
          /\ f_i \in DOMAIN f_config
          /\ Misconfigured(f_i)

\* the call has raised at its second node, the first node being well
\* configured and not probed
C14_Witness ==
    /\ f_pc = "raised"
    /\ f_exc = "ValueError"
    /\ f_i = 2
    /\ WellConfigured(1)
    /\ unit_state[f_config[1][2].ip] = "none"

\* C15: setup_ssh_keys reports an entry for every node that has an address:
\* once the first remote command has been issued no exception leaves the
\* call (a failed or misconfigured node does not stop the distribution), and
\* the returned results have an entry for exactly the addresses of the nodes.
C15_EveryAddressedNodeReported ==
    /\ k_commands # <<>> => k_pc # "raised"
    /\ k_pc = "returned" => KeySet(k_results) = KeyHosts

\* a private key file is at the key path
PrivateKeyExists == files[expanduser(k_call.key_path)] # NoText

\* the public key texts handed to the nodes so far
KeysSent == {k_commands[i][2][2][2] : i \in DOMAIN k_commands}

\* C16: setup_ssh_keys runs ssh-keygen exactly when no private key file is at
\* the key path (and then a new pair is written or the call raises); while a
\* private key exists no local file is written, so an existing key is never
\* regenerated or overwritten; and every node is sent the same public key
\* text, the stripped content of the public key file.
C16_KeygenOnlyWhenMissing ==
    [][/\ k_pc = "check" => ((k_pc' = "keygen") <=> ~PrivateKeyExists)
       /\ k_pc = "check" /\ PrivateKeyExists => k_pc' = "read"
       /\ k_pc = "keygen" =>
             \/ /\ keygen_runs' = keygen_runs + 1
                /\ files' = ssh_keygen(files, expanduser(k_call.key_path))
                /\ k_pc' = "read"
             \/ k_pc' = "raised" /\ files' = files
       /\ keygen_runs' # keygen_runs => k_pc = "keygen" /\ ~PrivateKeyExists
       /\ PrivateKeyExists => files' = files /\ keygen_runs' = keygen_runs
       /\ k_commands' # k_commands =>
             /\ KeysSent' = {k_public_key}
             /\ \E p \in LocalPaths :
                   files[p] # NoText /\ k_public_key = strip(files[p][1])
      ]_vars

\* two calls in a row over two nodes: the first call generated the pair, the
\* second did not, and all four commands carried the new public key
C16_Witness ==
    /\ k_round = 2
    /\ k_pc = "returned"
    /\ keygen_runs = 1
    /\ Len(k_commands) = 4
    /\ KeysSent = {SubSeq(NewPublic, 1, 3)}

(***************************************************************************)
(* The error messages of a failed probe                                    *)
(***************************************************************************)
\* a probe has returned after its ssh client exited non-zero
ProbeExitedNonZero ==
    /\ OpReturned
    /\ op.kind = "test_connection"
    /\ op_run.kind = "completed"
    /\ op_run.returncode # 0

\* the stderr part of the table, in the order in which it is consulted:
\* <<substring (of the lower-cased stderr), cause text>>
StderrCauses ==
    << <<<<"permission", "denied">>,
         <<"Check", "username", "and", "password/key.">>>>,
       <<<<"connection", "refused">>,
         <<"Ensure", "SSH", "server", "is", "running", "on", "the", "target", "host.">>>>,
       <<<<"no", "route", "to", "host">>,
         <<"Check", "network", "connectivity.">>>>,
       <<<<"timeout">>,
         <<"Connection", "timed", "out", "-", "check", "network", "and", "SSH",
           "configuration.">>>> >>

\* the rows of StderrCauses whose substring occurs in stderr
Matching(stderr) ==
    {i \in DOMAIN StderrCauses : Contains(lower(stderr), StderrCauses[i][1])}

\* C17: the error message of a probe that exited non-zero is given by a fixed
\* table of (exit code, stderr): 255 gives the unreachable / SSH not running
\* cause, 5 and 6 give authentication failed, 130 gives interrupted by user,
\* a code outside the table gives
\* the generic text naming "exit code N" with the actual N; the first of the
\* stderr substrings permission denied, connection refused, no route to
\* host, timeout that occurs (case-insensitively) appends its own cause text
\* and no other is appended; a failure matching no entry gets exactly the
\* generic message.
C17_ErrorMessageTable ==
    ProbeExitedNonZero =>
       LET result == op_result[1]
           code == op_run.returncode
           stderr == op_run.stderr
           generic == <<"SSH", "failed", "with", "exit", "code", ToString(code)>>
       IN  /\ ~result.success
           /\ Len(result.error_message) = 1
           /\ LET message == result.error_message[1]
              IN  /\ code = 255 =>
                        Contains(message, <<"host", "unreachable", "or", "SSH",
                                            "not", "running">>)
                  /\ code \in {5, 6} =>
                        Contains(message, <<"SSH", "authentication", "failed">>)
                  /\ code = 130 =>
                        Contains(message, <<"Connection", "interrupted", "by", "user">>)
                  /\ code \notin {255, 5, 6, 130} =>
                        SubSeq(message, 1, Len(generic)) = generic
                  /\ \A i \in DOMAIN StderrCauses :
                        Contains(message, StderrCauses[i][2]) <=>
                           /\ i \in Matching(stderr)
                           /\ \A j \in Matching(stderr) : i <= j
                  /\ code \notin {255, 5, 6, 130} /\ Matching(stderr) = {} =>
                        message = generic

\* a probe that exited 1 with a stderr the table does not know: the generic
\* message names exit code 1
C17_Witness ==
    /\ ProbeExitedNonZero
    /\ op_run.returncode = 1
    /\ op_run.stderr = <<"bash:", "command", "not", "found">>
    /\ op_result[1].error_message = Some(<<"SSH", "failed", "with", "exit", "code", "1">>)

(***************************************************************************)
(* The life cycle of one probe                                             *)
(***************************************************************************)
\* the remote process of the probe exited with status 0
ExitedZero(run) == run.kind = "completed" /\ run.returncode = 0

\* C18: a probe goes from not attempted to in flight to one terminal outcome
\* (a probe whose client cannot be started ends in the step that attempts
\* it), never raises, and produces exactly one result, at its terminal step:
\* success = TRUE with auth_method set and no error message exactly when the
\* client exited 0, otherwise success = FALSE with a non-empty error message
\* and no auth_method; no result has success = TRUE with an error message.
C18_ProbeLifeCycle ==
    [][op.kind = "test_connection" =>
         /\ <<op_pc, op_pc'>> \in {<<"not_attempted", "in_flight">>,
                                   <<"not_attempted", "returned">>,
                                   <<"in_flight", "returned">>,
                                   <<"returned", "returned">>}
         /\ op_pc = "returned" => op_result' = op_result /\ op_run' = op_run
         /\ op_pc' # "returned" => op_result' = <<>> /\ op_run' = NotRun
         /\ op_pc' = "returned" =>
               /\ Len(op_result') = 1
               /\ op_run' # NotRun
               /\ LET r == op_result'[1]
                  IN  /\ r.host = op.host
                      /\ r.success <=> ExitedZero(op_run')
                      /\ r.success =>
                            /\ r.auth_method \in {"password", "key"}
                            /\ r.error_message = NoText
                      /\ ~r.success =>
                            /\ r.auth_method = None
                            /\ Len(r.error_message) = 1
                            /\ r.error_message[1] # <<>>
                      /\ ~(r.success /\ r.error_message # NoText)
      ]_vars

\* a probe that went in flight and ended with a client exiting 6: its one
\* result is a failure with a message and no auth_method
C18_Witness ==
    /\ OpReturned
    /\ op.kind = "test_connection"
    /\ op_run.kind = "completed"
    /\ op_run.returncode = 6
    /\ remote = "exited"
    /\ ~op_result[1].success
    /\ op_result[1].auth_method = None
    /\ op_result[1].error_message # NoText

Digits == {ToString(n) : n \in 0..9}

\* the lines of the status listing, when the status command succeeded
Listing ==
    IF s_runs # <<>> /\ s_runs[1].kind = "completed" /\ s_runs[1].returncode = 0
    THEN s_runs[1].stdout ELSE <<>>

\* line i of the listing describes a service with replicas "running/desired"
\* (0/0 when the line has no 'Replicas')
Describes(i) ==
    /\ Listing[i].kind = "json"
    /\ Listing[i].Replicas # NoText =>
          LET text == Listing[i].Replicas[1]
          IN  Len(text) = 3 /\ text[1] \in Digits /\ text[2] = "/" /\ text[3] \in Digits

DesiredReplicas(i) ==
    IF Listing[i].Replicas = NoText THEN 0
    ELSE CHOOSE n \in 0..9 : ToString(n) = Listing[i].Replicas[1][3]

\* the service was found: the listing describes it
ServiceFound == \E i \in DOMAIN Listing : Describes(i)

FirstDescribed == CHOOSE i \in DOMAIN Listing : Describes(i) /\ \A j \in 1..(i - 1) : ~Describes(j)

IsScaleCommand(cmd) == Len(cmd) >= 3 /\ cmd[3] = "scale"

\* C20: scale_service on a service that is found (the status listing
\* describes it) issues, once and after the status command, the remote
\* command "docker service scale <name>=<replicas>" and returns old_replicas
\* = the desired replicas the listing gives for the service, new_replicas =
\* the requested count and success = the success of the scale command (its
\* client exited 0); on a service that is not found it returns success =
\* FALSE, message "Service not found", old_replicas = 0 and new_replicas =
\* the requested count, and no scale command is issued.
C20_ScaleService ==
    /\ s_pc = "scale" => ServiceFound
    /\ s_pc = "returned" =>
          /\ Len(s_result) = 1
          /\ s_result[1].service_name = s_call.service_name
          /\ s_result[1].new_replicas = s_call.replicas
          /\ IF ServiceFound
             THEN /\ Len(s_commands) = 2
                  /\ ~IsScaleCommand(s_commands[1])
                  /\ s_commands[2] =
                        <<"docker", "service", "scale",
                          s_call.service_name \o "=" \o ToString(s_call.replicas)>>
                  /\ s_result[1].old_replicas = DesiredReplicas(FirstDescribed)
                  /\ s_result[1].success <=> ExitedZero(s_runs[2])
             ELSE /\ \A i \in DOMAIN s_commands : ~IsScaleCommand(s_commands[i])
                  /\ Len(s_runs) = 1
                  /\ ~s_result[1].success
                  /\ s_result[1].message = <<"Service", "not", "found">>
                  /\ s_result[1].old_replicas = 0

\* "web" listed with 2 of 3 replicas running is scaled to 0: the scale
\* command succeeded and old_replicas is 3
C20_Witness ==
    /\ s_pc = "returned"
    /\ s_call = [service_name |-> "web", replicas |-> 0]
    /\ Listing = <<JsonLine("web", Some(<<"2", "/", "3">>))>>
    /\ s_commands[2] = <<"docker", "service", "scale", "web=0">>
    /\ s_result[1].success
    /\ s_result[1].old_replicas = 3
    /\ s_result[1].new_replicas = 0

(***************************************************************************)
(* C21, C22: scan_network_range                                            *)
(***************************************************************************)
\* the text names an IPv4 network: an address, alone or with "/" and a prefix
\* length of at most 32, that is the first address of its block
IsNetworkRange(text) ==
    /\ Len(text) \in {4, 6}
    /\ \A i \in 1..4 : Number(text[i]) # <<>>
    /\ Len(text) = 6 =>
          /\ text[5] = "/"
          /\ Number(text[6]) # <<>>
          /\ Number(text[6])[1] <= 32
          /\ ~HostBitsSet([i \in 1..4 |-> Number(text[i])[1]], Number(text[6])[1])

Pinged  == {h \in ScanAddrs : ping_state[h] # "none"}
Scanned == {h \in ScanAddrs : det_state[h] # "none"}

\* C21: scan_network_range given a string that is not a valid network range
\* returns an empty device list, without raising and without pinging or
\* scanning any host: such a call goes from parsing straight to its return, no
\* ping and no detection is ever submitted, and the list returned is empty.
C21_InvalidRangeReturnsEmpty ==
    (n_pc # "idle" /\ ~IsNetworkRange(n_call.network_range)) =>
        /\ n_pc \in {"parse", "returned"}
        /\ Pinged = {} /\ Scanned = {}
        /\ n_pc = "returned" => n_result = Some(<<>>)

\* the call has returned for the string "invalid"
C21_Witness ==
    /\ n_pc = "returned"
    /\ n_call.network_range = <<"invalid">>
    /\ n_result = Some(<<>>)

\* the addresses of a network, and its hosts
RangeOf(network) ==
    {AddressAfter(network.network_address, k) :
        k \in 0..(num_addresses(network) - 1)}

HostsOf(network) == Elements(hosts(network))

\* C22: for a valid range of at most 1000 addresses, the list returned has a
\* device for a host of the range exactly when that host answered the ping and
\* its detected pi_score is greater than 0; each such host appears once, with
\* the device detected for it, no host outside the range appears, and the list
\* is ordered by non-increasing pi_score, whatever the completion order of the
\* ping and detection workers.
C22_ScanResult ==
    (/\ n_pc = "returned"
     /\ IsNetworkRange(n_call.network_range)
     /\ num_addresses(ip_network(n_call.network_range).value[1])
           <= MaxScanAddresses) =>
        LET devices == n_result[1]
            HostsOfScan == HostsOf(ip_network(n_call.network_range).value[1])
            RangeOfScan == RangeOf(ip_network(n_call.network_range).value[1])
        IN  /\ \A h \in HostsOfScan :
                  (\E i \in DOMAIN devices : devices[i].ip = h)
                     <=> (ping_future[h] /\ det_state[h] = "yielded"
                             /\ det_future[h].pi_score > 0)
            /\ \A i, j \in DOMAIN devices :
                  devices[i].ip = devices[j].ip => i = j
            /\ \A i \in DOMAIN devices :
                  /\ devices[i].ip \in HostsOfScan
                  /\ devices[i].ip \in RangeOfScan
                  /\ devices[i] = det_future[devices[i].ip]
            /\ \A i, j \in DOMAIN devices :
                  i < j => devices[i].pi_score >= devices[j].pi_score

\* two devices are returned, the one detected last having the higher score,
\* and the first host of the range was the last to answer the ping
C22_Witness ==
    /\ n_pc = "returned"
    /\ Len(n_result[1]) = 2
    /\ pi_devices[1].pi_score < pi_devices[2].pi_score
    /\ alive_hosts[2] = n_hosts[1]

(***************************************************************************)
(* C23 .. C28: the worker pool of a batch call                             *)
(***************************************************************************)
Queued == {h \in Hosts : unit_state[h] = "queued"}

\* C23 (as stated): a blocked unit does not delay the start of any other
\* host's unit: whenever a unit of the batch is waiting to start, a unit can
\* start, however many other units are still in flight.
C23_StartNeverWaits ==
    Queued # {} => \E h \in Queued : ENABLED StartUnit(h)

\* C23 (amended): whenever a unit is waiting to start and fewer than
\* max_workers units are in flight, a unit can start; so in a batch of at most
\* max_workers hosts a unit never waits for another one, blocked or not.
C23_StartWaitsOnlyForAWorker ==
    /\ (Queued # {} /\ Cardinality(Running) < b_call.max_workers) =>
          \E h \in Queued : ENABLED StartUnit(h)
    /\ (Queued # {} /\ Len(Items(b_call)) <= b_call.max_workers) =>
          \E h \in Queued : ENABLED StartUnit(h)

\* a unit is in flight, another unit is waiting and a worker is free for it
C23_Witness ==
    /\ Running # {}
    /\ Queued # {}
    /\ Cardinality(Running) < b_call.max_workers
    /\ \E h \in Queued : ENABLED StartUnit(h)

\* C24: at every moment of a batch call the number of units running at once is
\* at most max_workers (5 by default); a unit beyond that bound stays queued
\* until a worker is free.
C24_AtMostMaxWorkersRunning ==
    b_pc # "idle" =>
        /\ Cardinality(Running) <= b_call.max_workers
        /\ Cardinality(Running) = b_call.max_workers =>
              \A h \in Queued : ~ENABLED StartUnit(h)

\* every worker of the pool is busy and a unit is waiting
C24_Witness ==
    /\ Cardinality(Running) = b_call.max_workers
    /\ Queued # {}

\* a step writes the entry of one host that had none and has just been yielded
\* for the first time, and leaves every earlier entry as it was
WritesOneNewKey ==
    \E h \in Hosts :
       /\ ~Has(results, h)
       /\ h \notin yielded
       /\ yielded' = yielded \cup {h}
       /\ Len(results') = Len(results) + 1
       /\ SubSeq(results', 1, Len(results)) = results
       /\ results'[Len(results')][1] = h

\* C25: the result map is write-once per key: a step that changes it adds the
\* entry of one host that had none and has just been yielded for the first
\* time, leaving every earlier entry as it was; and when the call returns
\* every requested host's key has been written.
C25_ResultMapIsWriteOnce ==
    [][(results' # results => WritesOneNewKey)
          /\ (b_pc' = "returned" => KeySet(results') = KeySet(Items(b_call)))]_vars

\* the second entry has been written next to the first, which is unchanged,
\* by units that completed in another order than they were submitted
C25_Witness ==
    /\ Len(results) = 2
    /\ results[1][1] # results[2][1]
    /\ Keys(results) # Keys(Items(b_call))
    /\ b_pc = "returned"

\* C28: in every returned batch mapping the result stored under host h is the
\* one h's own unit produced from h's own arguments: its host field is h, in
\* command mode its command field is the command requested for h, and it is
\* the outcome of the run of h's unit.
C28_ResultsBelongToTheirHost ==
    b_pc = "returned" =>
        \A i \in DOMAIN results :
           LET h == results[i][1]
               r == results[i][2]
           IN  /\ r.host = h
               /\ b_call.op = "execute_parallel_commands" =>
                     r.command = Get(b_call.hosts_commands, h)
               /\ future[h] = UnitCall(b_call, h, unit_args[h], unit_run[h])
               /\ r = IF future[h].raised = None THEN future[h].value[1]
                      ELSE FailureResult(b_call, h, future[h].raised)

\* a returned command batch of two hosts whose units ended differently and
\* completed in another order than they were submitted
C28_Witness ==
    /\ b_pc = "returned"
    /\ b_call.op = "execute_parallel_commands"
    /\ Len(results) = 2
    /\ Keys(results) # Keys(Items(b_call))
    /\ results[1][2].success # results[2][2].success
    /\ results[1][2].command # results[2][2].command

\* every unit the call submitted has ended
NoUnitInFlight == \A h \in Hosts : unit_state[h] \in {"none", "finished"}

\* C27: every batch call ends, provided each started unit ends: the call is
\* left in the end (by its return, or by the exception of C2's case), and
\* whenever it has been left no unit it submitted is still queued or running.
C27_BatchTerminates ==
    /\ <>(b_pc \in {"returned", "raised"})
    /\ [](b_pc \in {"returned", "raised"} => NoUnitInFlight)

\* the call has returned after a unit that timed out
C27_Witness ==
    /\ b_pc = "returned"
    /\ NoUnitInFlight
    /\ \E h \in Hosts : unit_run[h].kind = "timeout"

(***************************************************************************)
(* C26: the remote steps of key distribution                               *)
(***************************************************************************)
AllStepsSucceeded == k_chain = <<0, 0, 0, 0>>

\* execute_command has just returned for the current node
KeyRecorded == k_pc = "remote" /\ k_pc' = "nodes"

\* the command sent is the listed chain, and its steps run one after the
\* other from the first, each only after every earlier step exited 0; the key
\* is appended by the second step alone
StepsRunInOrder ==
    /\ k_pc = "remote" =>
          /\ KeyCommand(k_public_key) = k_commands[Len(k_commands)][2]
          /\ [i \in 1..4 |-> KeyCommand(k_public_key)[i][1]]
                = <<"mkdir", "echo", "chmod", "chmod">>
          /\ KeyCommand(k_public_key)[3][2] = "600"
          /\ KeyCommand(k_public_key)[4][2] = "700"
    /\ k_chain' # k_chain =>
          \/ k_chain' = <<>>
          \/ /\ Len(k_chain') = Len(k_chain) + 1
             /\ Len(k_chain') <= 4
             /\ SubSeq(k_chain', 1, Len(k_chain)) = k_chain
             /\ \A i \in DOMAIN k_chain : k_chain[i] = 0
    /\ authorized_keys' # authorized_keys =>
          k_chain = <<0>> /\ k_chain' = <<0, 0>>

\* C26 (as stated): the remote steps run in the listed order, a step runs
\* only if every earlier step succeeded, and the host is reported successful
\* exactly when all steps succeeded.
C26_SuccessIffAllStepsSucceeded ==
    [][/\ StepsRunInOrder
       /\ KeyRecorded => (Get(k_results', KeyHost) <=> AllStepsSucceeded)]_vars

\* C26 (amended): the remote steps run in the listed order, a step runs only
\* if every earlier step succeeded, and the host is reported successful only
\* when all steps succeeded.
C26_SuccessOnlyIfAllStepsSucceeded ==
    [][/\ StepsRunInOrder
       /\ KeyRecorded => (Get(k_results', KeyHost) => AllStepsSucceeded)]_vars

\* a host has been reported successful after its four steps, and another
\* one failed after the key had been appended
C26_Witness ==
    /\ k_pc = "nodes"
    /\ k_round = 1
    /\ Len(k_results) = 2
    /\ k_results[1][2]
    /\ ~k_results[2][2]
    /\ k_chain = <<0, 0, 1>>

(***************************************************************************)
(* C29, C30: _resolve_dependencies                                         *)
(***************************************************************************)
NamesOf(services) == {services[i].name : i \in DOMAIN services}

UniqueNames(services) ==
    \A i, j \in DOMAIN services : services[i].name = services[j].name => i = j

DependenciesListed(services) ==
    \A i \in DOMAIN services : \A d \in DOMAIN services[i].depends_on :
       services[i].depends_on[d] \in NamesOf(services)

\* the services can be ranked so that each ranks above all it depends on
Acyclic(services) ==
    \E rank \in [DOMAIN services -> DOMAIN services] :
       \A i, j \in DOMAIN services :
          (\E d \in DOMAIN services[i].depends_on :
              services[i].depends_on[d] = services[j].name)
             => rank[j] < rank[i]

\* C29: for a list of service templates with unique names whose dependencies
\* are all in the list and form no cycle, _resolve_dependencies returns the
\* services of the list, each once, every service after all the services it
\* depends on.
C29_DependenciesComeFirst ==
    (/\ d_pc = "returned"
     /\ UniqueNames(d_services)
     /\ DependenciesListed(d_services)
     /\ Acyclic(d_services)) =>
        /\ Len(d_resolved) = Len(d_services)
        /\ Elements(d_resolved) = Elements(d_services)
        /\ \A i \in DOMAIN d_resolved :
              \A d \in DOMAIN d_resolved[i].depends_on :
                 \E j \in 1..(i - 1) :
                    d_resolved[j].name = d_resolved[i].depends_on[d]

\* a chain cache -> web -> db given in the reverse order has been resolved
C29_Witness ==
    /\ d_pc = "returned"
    /\ Len(d_services) = 3
    /\ d_services[1].depends_on = <<"web">>
    /\ d_services[2].depends_on = <<"db">>
    /\ d_services[3].depends_on = <<>>
    /\ d_services[1].name = "cache"
    /\ d_services[2].name = "web"
    /\ d_services[3].name = "db"
    /\ d_resolved = <<d_services[3], d_services[2], d_services[1]>>

\* the number of times a service occurs in a list
Count(list, x) == Cardinality({i \in DOMAIN list : list[i] = x})

\* C30: for any list of service templates, with circular or missing
\* dependencies too, _resolve_dependencies returns a permutation of its
\* input: every input service appears in the result exactly as often as in
\* the input, and nothing else does.
C30_ResultIsAPermutation ==
    d_pc = "returned" =>
        /\ Len(d_resolved) = Len(d_services)
        /\ \A x \in Elements(d_services) \cup Elements(d_resolved) :
              Count(d_resolved, x) = Count(d_services, x)

====
